---- MODULE Spec2Model ----
(***************************************************************************)
(* Verification model of the fmgNICE video playback core.                  *)
(*                                                                         *)
(*  Part I   the lock-free ring buffer (lockfree-ringbuffer.c/.h)           *)
(*  Part II  the blocking 3-slot buffer with the decode thread, the        *)
(*           display thread and the pipeline controller                    *)
(*           (ffmpeg-decoder.c)                                            *)
(*  Part III the frame cache (frame-cache.c/.h)                            *)
(*  Part IV  the playback clock (ffmpeg-decoder.c)                         *)
(*  Part V   the accelerated path of the decode thread (ffmpeg-decoder.c)  *)
(*  Part VI  the deferred-stop timer of the source plugin                  *)
(*                                                                         *)
(* Part II follows the video path.  Every buffered frame carries a usable  *)
(* payload (software BGRA frames); the audio path and the hardware-frame   *)
(* payload checks of the display thread are not part of the state, and     *)
(* the deadline of a picture is an input there (Part IV computes it).      *)
(* decoder->mutex guards single reads and writes of the flags, so each of  *)
(* its critical sections is one step.                                      *)
(***************************************************************************)
EXTENDS Integers, Sequences, FiniteSets, TLC

(***************************************************************************)
(* Bounds of the model (not program constants).                            *)
(***************************************************************************)
\* frames the ring-buffer producer may hand to write_commit
MaxRBFrames == 5
\* failed write_begin / read_begin calls that are counted
MaxRBFailures == 1

(***************************************************************************)
(* Part I: lock-free ring buffer                                           *)
(***************************************************************************)
RING_BUFFER_SIZE == 4

SLOT_EMPTY == 0
SLOT_WRITING == 1
SLOT_READY == 2
SLOT_READING == 3

Slots == 0 .. (RING_BUFFER_SIZE - 1)

VARIABLES
    rb,        \* struct lockfree_ringbuffer
    prod,      \* the producer thread: position, slots it holds, last return value
    cons,      \* the consumer thread: position, slots it holds, last return value
    rbLog,     \* history: pairs committed, pairs returned, protocol flags
    dec,       \* struct ffmpeg_decoder: flags, seek and pause/resume fields
    buffer,    \* struct ffmpeg_decoder.buffer: frames[3], write_idx, read_idx, count
    bufsync,   \* buffer.lock (owner) and buffer.cond (threads waiting on it)
    decT,      \* decoder_thread: position and locals
    dispT,     \* display_thread: position and locals
    ctl,       \* the host thread calling the decoder API
    hist,      \* history: frames enqueued, flushes, frames handed to the sink
    now,       \* os_gettime_ns() / 1000000 as read by pause_ready / resume
    cache,     \* struct frame_cache
    pins,      \* entries returned by frame_cache_get and not yet released
    cacheRes,  \* history: the last call on the cache and what it returned
    ctime,     \* os_gettime_ns() as last read by a call on the cache
    cacheT,    \* two threads inside frame_cache_put and frame_cache_invalidate
    clock,     \* struct ffmpeg_decoder.clock
    clockRes,  \* history: calls on the clock, deadlines handed out in this epoch
    hw,        \* hw_decoding_active of each decoder, the static hw_failure_count
    tmr        \* struct fvs_source: the deferred-stop timer fields and threads

\* the frame cache, the clock, the hardware path and the deferred-stop timer,
\* modelled apart from the ring buffer and the two threads
sideVars == <<cache, pins, cacheRes, ctime, cacheT, clock, clockRes, hw, tmr>>

rbVars == <<rb, prod, cons, rbLog, sideVars>>

pumpVars == <<dec, buffer, bufsync, decT, dispT, ctl, hist, now, sideVars>>

coreVars == <<rb, prod, cons, rbLog, dec, buffer, bufsync, decT, dispT, ctl, hist, now>>

vars == <<rb, prod, cons, rbLog, dec, buffer, bufsync, decT, dispT, ctl, hist, now,
          cache, pins, cacheRes, ctime, cacheT, clock, clockRes, hw, tmr>>

\* The timestamp the producer passes with frame k (distinct, increasing).
TimestampOf(k) == k * 33000

\* (pos + 1) & (RING_BUFFER_SIZE - 1), RING_BUFFER_SIZE a power of two
NextPos(pos) == (pos + 1) % RING_BUFFER_SIZE

\* (mutant) a plain store in place of the compare-and-swap
CasAlways(current, expected) == TRUE

\* atomic_compare_exchange_32(&state, &expected, desired) succeeds
CasSucceeds(current, expected) == current = expected

\* lockfree_ringbuffer_init
rb_init ==
    [ state          |-> [i \in Slots |-> SLOT_EMPTY],
      frame          |-> [i \in Slots |-> 0],
      timestamp      |-> [i \in Slots |-> 0],
      write_pos      |-> 0,
      read_pos       |-> 0,
      frames_written |-> 0,
      frames_read    |-> 0,
      write_failures |-> 0,
      read_failures  |-> 0 ]

RBInit ==
    /\ rb = rb_init
    /\ prod = [pc |-> "idle", held |-> {}, ok |-> FALSE, slot |-> 0]
    /\ cons = [pc |-> "idle", held |-> {}, ok |-> FALSE, slot |-> 0,
               frame |-> 0, timestamp |-> 0]
    /\ rbLog = [committed |-> <<>>, returned |-> <<>>, cycle |-> {},
                aborted |-> FALSE, overlapped |-> FALSE, fullFail |-> FALSE]

\* Which slot state lets write_begin claim the slot at write_pos.
WriteBeginExpected == SLOT_EMPTY

\* Every slot is claimed: none is in state EMPTY.
AllClaimed == \A i \in Slots : rb.state[i] # SLOT_EMPTY

\* (mutant) the failure path also moves the write cursor on
write_begin_full_advances ==
    /\ rb' = [rb EXCEPT !.write_failures = @ + 1,
                        !.write_pos = NextPos(rb.write_pos)]
    /\ prod' = [prod EXCEPT !.ok = FALSE]
    /\ rbLog' = [rbLog EXCEPT !.fullFail = @ \/ AllClaimed]
    /\ UNCHANGED cons

\* lockfree_ringbuffer_write_begin, CAS failed: buffer full
write_begin_full ==
    /\ rb' = [rb EXCEPT !.write_failures = @ + 1]
    /\ prod' = [prod EXCEPT !.ok = FALSE]
    /\ rbLog' = [rbLog EXCEPT !.fullFail = @ \/ AllClaimed]
    /\ UNCHANGED cons

\* lockfree_ringbuffer_write_begin, CAS succeeded: slot claimed, cursor advanced
write_begin_claim ==
    /\ rb' = [rb EXCEPT !.state[rb.write_pos] = SLOT_WRITING,
                        !.write_pos = NextPos(rb.write_pos)]
    /\ prod' = [prod EXCEPT !.ok = TRUE, !.slot = rb.write_pos,
                            !.held = @ \cup {rb.write_pos}]
    /\ rbLog' = [rbLog EXCEPT !.overlapped = @ \/ (prod.held # {})]
    /\ UNCHANGED cons

\* bool lockfree_ringbuffer_write_begin(rb, &slot)
lockfree_ringbuffer_write_begin ==
    /\ prod.pc = "idle"
    /\ Len(rbLog.committed) + Cardinality(prod.held) < MaxRBFrames
    /\ IF CasSucceeds(rb.state[rb.write_pos], WriteBeginExpected)
       THEN write_begin_claim
       ELSE /\ rb.write_failures < MaxRBFailures
            /\ write_begin_full
    /\ UNCHANGED pumpVars

\* lockfree_ringbuffer_write_commit(rb, slot, frame, timestamp):
\* payload, release barrier, state = READY
lockfree_ringbuffer_write_commit(slot) ==
    /\ prod.pc = "idle"
    /\ slot \in prod.held
    /\ LET k == Len(rbLog.committed) + 1 IN
       /\ rb' = [rb EXCEPT !.frame[slot] = k,
                           !.timestamp[slot] = TimestampOf(k),
                           !.state[slot] = SLOT_READY]
       /\ rbLog' = [rbLog EXCEPT
                      !.committed = Append(@, <<k, TimestampOf(k)>>),
                      !.cycle = @ \cup {slot}]
    /\ prod' = [prod EXCEPT !.pc = "commit_count", !.held = @ \ {slot}]
    /\ UNCHANGED cons
    /\ UNCHANGED pumpVars

\* ... atomic_fetch_add_64(&rb->frames_written, 1)
write_commit_count ==
    /\ prod.pc = "commit_count"
    /\ rb' = [rb EXCEPT !.frames_written = @ + 1]
    /\ prod' = [prod EXCEPT !.pc = "idle"]
    /\ UNCHANGED <<cons, rbLog>>
    /\ UNCHANGED pumpVars

\* lockfree_ringbuffer_write_abort(rb, slot)
lockfree_ringbuffer_write_abort(slot) ==
    /\ prod.pc = "idle"
    /\ slot \in prod.held
    /\ rb' = [rb EXCEPT !.state[slot] = SLOT_EMPTY]
    /\ prod' = [prod EXCEPT !.held = @ \ {slot}]
    /\ rbLog' = [rbLog EXCEPT !.aborted = TRUE]
    /\ UNCHANGED cons
    /\ UNCHANGED pumpVars

\* Which slot state lets read_begin claim the slot at read_pos.
ReadBeginExpected == SLOT_READY

\* lockfree_ringbuffer_read_begin, CAS failed: no data ready
read_begin_empty ==
    /\ rb' = [rb EXCEPT !.read_failures = @ + 1]
    /\ cons' = [cons EXCEPT !.ok = FALSE]
    /\ UNCHANGED <<prod, rbLog>>

\* (mutant) the read cursor is not stored back
read_begin_take_no_advance ==
    LET p == rb.read_pos IN
    /\ rb' = [rb EXCEPT !.state[p] = SLOT_READING,
                        !.frame[p] = 0,
                        !.timestamp[p] = 0]
    /\ cons' = [cons EXCEPT !.pc = "read_count", !.ok = TRUE, !.slot = p,
                            !.frame = rb.frame[p],
                            !.timestamp = rb.timestamp[p],
                            !.held = @ \cup {p}]
    /\ rbLog' = [rbLog EXCEPT
                   !.returned = Append(@, <<rb.frame[p], rb.timestamp[p]>>)]
    /\ UNCHANGED prod

\* lockfree_ringbuffer_read_begin, CAS succeeded: payload taken and cleared,
\* cursor advanced
read_begin_take ==
    LET p == rb.read_pos IN
    /\ rb' = [rb EXCEPT !.state[p] = SLOT_READING,
                        !.frame[p] = 0,
                        !.timestamp[p] = 0,
                        !.read_pos = NextPos(p)]
    /\ cons' = [cons EXCEPT !.pc = "read_count", !.ok = TRUE, !.slot = p,
                            !.frame = rb.frame[p],
                            !.timestamp = rb.timestamp[p],
                            !.held = @ \cup {p}]
    /\ rbLog' = [rbLog EXCEPT
                   !.returned = Append(@, <<rb.frame[p], rb.timestamp[p]>>)]
    /\ UNCHANGED prod

\* bool lockfree_ringbuffer_read_begin(rb, &slot, &frame, &timestamp)
lockfree_ringbuffer_read_begin ==
    /\ cons.pc = "idle"
    /\ IF CasSucceeds(rb.state[rb.read_pos], ReadBeginExpected)
       THEN read_begin_take
       ELSE /\ rb.read_failures < MaxRBFailures
            /\ read_begin_empty
    /\ UNCHANGED pumpVars

\* ... atomic_fetch_add_64(&rb->frames_read, 1); return true
read_begin_count ==
    /\ cons.pc = "read_count"
    /\ rb' = [rb EXCEPT !.frames_read = @ + 1]
    /\ cons' = [cons EXCEPT !.pc = "idle"]
    /\ UNCHANGED <<prod, rbLog>>
    /\ UNCHANGED pumpVars

\* lockfree_ringbuffer_read_complete(rb, slot)
lockfree_ringbuffer_read_complete(slot) ==
    /\ cons.pc = "idle"
    /\ slot \in cons.held
    /\ rb' = [rb EXCEPT !.state[slot] = SLOT_EMPTY]
    /\ cons' = [cons EXCEPT !.held = @ \ {slot}]
    /\ rbLog' = [rbLog EXCEPT !.cycle = @ \ {slot}]
    /\ UNCHANGED prod
    /\ UNCHANGED pumpVars

RBNext ==
    \/ lockfree_ringbuffer_write_begin
    \/ \E s \in Slots : lockfree_ringbuffer_write_commit(s)
    \/ write_commit_count
    \/ \E s \in Slots : lockfree_ringbuffer_write_abort(s)
    \/ lockfree_ringbuffer_read_begin
    \/ read_begin_count
    \/ \E s \in Slots : lockfree_ringbuffer_read_complete(s)

(***************************************************************************)
(* Part II: blocking buffer, decode thread, display thread, controller     *)
(***************************************************************************)
\* video frames the decode thread may enqueue in one run of the model
MaxFrames == 4
\* decoder API calls the host makes in one run of the model
MaxCalls == 4
\* video frames in one run of the model with the clock advancing
MaxFramesTimed == 4
\* decoder API calls in one run of the model with the clock advancing
MaxCallsTimed == 3
\* clock advances between API calls in one run of the model
MaxTicks == 2
\* end-of-file rewinds (loop flushes) in one run of the model
MaxFlushes == 1
MaxFramesSeek == 4
MaxCallsSeek == 5
\* video frames and API calls in one run of the model with set_callbacks
MaxFramesSink == 4
MaxCallsSink == 3

\* frames[3] and the "% 3" of the cursors
BUFFER_FRAMES == 3
\* "more than 500ms" late: time_until_display < -500000000 ns
VERY_LATE_NS == 500000000
\* "more than 3ms early": time_until_display > 3000000 ns
EARLY_NS == 3000000
\* "less than 10 seconds old": current_time - state_preserved_time > 10000
RESUME_WINDOW_MS == 10000

DECODER_STATE_STOPPED == "STOPPED"
DECODER_STATE_PAUSED_READY == "PAUSED_READY"
DECODER_STATE_PLAYING == "PLAYING"

BufSlots == 0 .. (BUFFER_FRAMES - 1)

\* Inputs of the model.
\* position_us passed to seek()
SeekTargets == {5000000}
SeekTargetsTwo == {5000000, 7000000}
\* deadlines clock_get_system_time_for_pts hands to the decode thread (ms)
DeadlineInputs == {1000}
\* values of os_gettime_ns() / 1000000 the display thread reads (ms):
\* 10 ms early, due, exactly 500 ms late, 501 ms late
NowInputs == {990, 1000, 1500, 1501}
\* clock advances (ms)
TickSteps == {1, 10000}
\* pts_us of the k-th decoded frame; a stream may start at a negative pts
PtsInputs(k) == {-1, k * 33000}

\* (mutant) the cursors wrap one slot early
NextIdx_Mod2(idx) == (idx + 1) % (BUFFER_FRAMES - 1)

\* (idx + 1) % 3
NextIdx(idx) == (idx + 1) % BUFFER_FRAMES

\* (mutant) off by one: the buffer counts as full only above 3
BufferFull_Above(count) == count > BUFFER_FRAMES

\* decoder->buffer.count >= 3
BufferFull(count) == count >= BUFFER_FRAMES

\* int64_t time_until_display = (int64_t)(display_time - current_time_ms) * 1000000
TimeUntilDisplay(display_time, current_time_ms) ==
    (display_time - current_time_ms) * 1000000

\* a struct buffered_frame as bzalloc / ffmpeg_decoder_create leave it;
\* ref: the slot's AVFrame holds a reference to picture data (av_frame_alloc
\* gives a frame that holds none);
\* id and epoch are history: which enqueue filled the slot, after how many flushes
EmptyFrame ==
    [ready |-> FALSE, pts |-> 0, system_time |-> 0, ref |-> FALSE,
     id |-> 0, epoch |-> 0]

\* pthread_cond_signal: at most one waiting thread is released
SignalOne(waiters) == IF waiters = {} THEN {{}} ELSE {waiters \ {w} : w \in waiters}

\* the struct ffmpeg_decoder as ffmpeg_decoder_create leaves it, with the
\* sink set by set_callbacks
CreatedDecoder ==
    [ initialized |-> FALSE, playing |-> FALSE, stopping |-> FALSE,
      thread_running |-> FALSE, display_thread_created |-> FALSE,
      interrupt_request |-> FALSE, looping |-> FALSE,
      seek_request |-> FALSE, seek_target |-> 0,
      waiting_for_first_frame |-> FALSE,
      state |-> DECODER_STATE_STOPPED, state_preserved_time |-> 0,
      seek_was_in_progress |-> FALSE, preserved_seek_position |-> 0,
      preserved_playback_position |-> 0, frame_pts |-> 0,
      video_cb |-> TRUE, format_pos |-> 0, frames_dropped |-> 0 ]

\* the same after the first ffmpeg_decoder_initialize of start_playback
\* found its file
InitializedDecoder == [CreatedDecoder EXCEPT !.initialized = TRUE]

\* ffmpeg_decoder_create followed by set_callbacks (start_playback);
\* frames is how many pictures the file yields in this run, calls how many
\* API calls the host makes.
\* hist: pictures enqueued, flushes done, frames handed to the sink since the
\* last discontinuity (how many, the last one), clock advances, time of the
\* last pause_ready; armed: a play, a seek reposition or a loop wrap has
\* happened and no picture with a timestamp has been decoded since;
\* unjoined: the kinds of thread created by pthread_create and not yet
\* passed to pthread_join
PumpInitFrom(decoder, frames, calls) ==
    /\ dec = decoder
    /\ buffer = [ frames |-> [i \in BufSlots |-> EmptyFrame],
                  write_idx |-> 0, read_idx |-> 0, count |-> 0 ]
    /\ bufsync = [owner |-> "none", waiters |-> {}]
    /\ decT = [pc |-> "none", seek_target |-> 0, pts |-> 0, display_time |-> 0]
    /\ dispT = [pc |-> "none", current_read_idx |-> 0, frame |-> EmptyFrame]
    /\ ctl = [pc |-> "idle", op |-> "none", ret |-> FALSE, calls |-> 0,
              budget |-> calls]
    /\ hist = [ enqueued |-> 0, flushes |-> 0, shown |-> 0, lastShown |-> 0,
                ticks |-> 0, pausedAt |-> 0, budget |-> frames,
                lastSeek |-> 0, dropped |-> {}, lateSeen |-> {},
                armed |-> FALSE, unjoined |-> {} ]
    /\ now = 0

PumpInit(frames, calls) == PumpInitFrom(CreatedDecoder, frames, calls)

\* decoder_thread at the head of its loop; the locals of an iteration
\* (seek_target, pts_us, display_time) are dead there
StartedDecoder == [pc |-> "top", seek_target |-> 0, pts |-> 0, display_time |-> 0]

\* display_thread at the head of its loop; current_read_idx and obs_frame
\* are dead there
StartedDisplay == [pc |-> "top", current_read_idx |-> 0, frame |-> EmptyFrame]

\* pthread_mutex_lock(&decoder->buffer.lock) can return
LockFree == bufsync.owner = "none"

\* (mutant) the seek path resets the cursors but leaves the ready flags
SeekFlushed_KeepReady ==
    [ frames |-> buffer.frames, write_idx |-> 0, read_idx |-> 0, count |-> 0 ]

\* the seek path clears the ready flags, unreferences the frames and resets
\* the cursors
SeekFlushed ==
    [ frames |-> [i \in BufSlots |->
                    [buffer.frames[i] EXCEPT !.ready = FALSE, !.ref = FALSE]],
      write_idx |-> 0, read_idx |-> 0, count |-> 0 ]

\* (mutant) the loop path leaves the frame references alone
LoopFlushed_KeepRefs ==
    [ frames |-> [i \in BufSlots |->
                    [buffer.frames[i] EXCEPT !.ready = FALSE, !.pts = -1,
                                             !.system_time = 0]],
      write_idx |-> 0, read_idx |-> 0, count |-> 0 ]

\* (mutant) the loop path clears the slots but keeps count
LoopFlushed_KeepCount ==
    [ frames |-> [i \in BufSlots |->
                    [buffer.frames[i] EXCEPT !.ready = FALSE, !.pts = -1,
                                             !.system_time = 0, !.ref = FALSE]],
      write_idx |-> 0, read_idx |-> 0, count |-> buffer.count ]

\* the loop path also invalidates pts and system_time
LoopFlushed ==
    [ frames |-> [i \in BufSlots |->
                    [buffer.frames[i] EXCEPT !.ready = FALSE, !.pts = -1,
                                             !.system_time = 0, !.ref = FALSE]],
      write_idx |-> 0, read_idx |-> 0, count |-> 0 ]

(***************************************************************************)
(* decoder_thread                                                          *)
(***************************************************************************)
\* loop head: leave on stopping, idle while not playing, pick up a seek request
decoder_loop_head ==
    /\ decT.pc = "top"
    /\ \/ /\ ~dec.thread_running \/ dec.stopping
          /\ decT' = [decT EXCEPT !.pc = "exit"]
          /\ dec' = dec
       \/ /\ dec.thread_running /\ ~dec.stopping /\ dec.playing
          /\ IF dec.seek_request
             THEN /\ dec' = [dec EXCEPT !.seek_request = FALSE]
                  /\ decT' = [decT EXCEPT !.pc = "seek_flush",
                                          !.seek_target = dec.seek_target]
             ELSE /\ dec' = dec
                  /\ decT' = [decT EXCEPT !.pc = "read"]
    /\ UNCHANGED <<buffer, bufsync, dispT, ctl, hist, now>>
    /\ UNCHANGED rbVars

\* seek, first half: clear the frame buffer under buffer.lock
decoder_seek_flush ==
    /\ decT.pc = "seek_flush"
    /\ LockFree
    /\ buffer' = SeekFlushed
    /\ hist' = [hist EXCEPT !.flushes = @ + 1, !.shown = 0, !.lastShown = 0]
    /\ decT' = [decT EXCEPT !.pc = "seek_reposition"]
    /\ UNCHANGED <<dec, bufsync, dispT, ctl, now>>
    /\ UNCHANGED rbVars

\* seek, second half: av_seek_frame to the local seek_target, flush the
\* codec, re-arm the clock
decoder_seek_reposition ==
    /\ decT.pc = "seek_reposition"
    /\ dec' = [dec EXCEPT !.format_pos = decT.seek_target,
                          !.waiting_for_first_frame = TRUE]
    /\ decT' = [decT EXCEPT !.pc = "read", !.seek_target = 0]
    /\ hist' = [hist EXCEPT !.armed = TRUE]
    /\ UNCHANGED <<buffer, bufsync, dispT, ctl, now>>
    /\ UNCHANGED rbVars

\* if (decoder->waiting_for_first_frame && pts_us != AV_NOPTS_VALUE), for a
\* picture that has a timestamp
FirstFrame(waiting) == waiting

\* av_read_frame and decode of one packet; for a picture with a timestamp
\* that finds waiting_for_first_frame set, up to the return of clock_reset
decoder_read ==
    /\ decT.pc = "read"
    /\ \/ /\ dec.stopping \/ dec.interrupt_request
          /\ decT' = [decT EXCEPT !.pc = "exit"]
          /\ UNCHANGED <<dec, hist>>
       \/ /\ ~dec.stopping
          /\ \/ \* AVERROR_EOF
                /\ IF dec.looping
                   THEN /\ hist.flushes < MaxFlushes
                        /\ decT' = [decT EXCEPT !.pc = "loop_flush"]
                        /\ dec' = dec
                   ELSE /\ dec' = [dec EXCEPT !.playing = FALSE]
                        /\ decT' = [decT EXCEPT !.pc = "top"]
                /\ hist' = hist
             \/ \* another error, an audio packet, or no picture yet
                /\ decT' = [decT EXCEPT !.pc = "top"]
                /\ UNCHANGED <<dec, hist>>
             \/ \* a picture with a timestamp
                /\ hist.enqueued < hist.budget
                /\ \E pts_us \in PtsInputs(hist.enqueued + 1),
                      display_time \in DeadlineInputs :
                      decT' = [decT EXCEPT
                                 !.pc = IF FirstFrame(dec.waiting_for_first_frame)
                                        THEN "first_frame" ELSE "enqueue",
                                 !.pts = pts_us,
                                 !.display_time = display_time]
                /\ dec' = dec
                /\ hist' = [hist EXCEPT !.armed = FALSE]
    /\ UNCHANGED <<buffer, bufsync, dispT, ctl, now>>
    /\ UNCHANGED rbVars

\* after clock_reset: waiting_for_first_frame = false, a plain store made
\* without decoder->mutex
decoder_first_frame ==
    /\ decT.pc = "first_frame"
    /\ dec' = [dec EXCEPT !.waiting_for_first_frame = FALSE]
    /\ decT' = [decT EXCEPT !.pc = "enqueue"]
    /\ UNCHANGED <<buffer, bufsync, dispT, ctl, hist, now>>
    /\ UNCHANGED rbVars

\* end of file while looping: clear and invalidate the buffer, wake every
\* waiter, av_seek_frame to the start, re-arm the clock
decoder_loop_flush ==
    /\ decT.pc = "loop_flush"
    /\ LockFree
    /\ buffer' = LoopFlushed
    /\ bufsync' = [bufsync EXCEPT !.waiters = {}]
    /\ dec' = [dec EXCEPT !.format_pos = 0,
                          !.waiting_for_first_frame = TRUE]
    /\ hist' = [hist EXCEPT !.flushes = @ + 1, !.shown = 0, !.lastShown = 0,
                            !.armed = TRUE]
    /\ decT' = [decT EXCEPT !.pc = "top"]
    /\ UNCHANGED <<dispT, ctl, now>>
    /\ UNCHANGED rbVars

\* with buffer.lock held: wait while the buffer is full; then, unless
\* stopping, go on to fill the slot at write_idx with the lock still held
decoder_wait_full ==
    IF BufferFull(buffer.count) /\ ~dec.stopping
    THEN \* pthread_cond_signal, then pthread_cond_wait releases the lock
         /\ \E w \in SignalOne(bufsync.waiters) :
               bufsync' = [owner |-> "none", waiters |-> w \cup {"dec"}]
         /\ decT' = [decT EXCEPT !.pc = "full_wait"]
    ELSE IF dec.stopping
    THEN \* unlock only
         /\ decT' = StartedDecoder
         /\ bufsync' = [bufsync EXCEPT !.owner = "none"]
    ELSE /\ decT' = [decT EXCEPT !.pc = "convert"]
         /\ bufsync' = [bufsync EXCEPT !.owner = "dec"]

\* the decode thread takes buffer.lock to store the picture
decoder_enqueue ==
    /\ decT.pc = "enqueue"
    /\ LockFree
    /\ decoder_wait_full
    /\ UNCHANGED <<dec, buffer, dispT, ctl, hist, now>>
    /\ UNCHANGED rbVars

\* pthread_cond_wait returns: released by a signal and buffer.lock re-acquired
decoder_full_wake ==
    /\ decT.pc = "full_wait"
    /\ "dec" \notin bufsync.waiters
    /\ LockFree
    /\ decoder_wait_full
    /\ UNCHANGED <<dec, buffer, dispT, ctl, hist, now>>
    /\ UNCHANGED rbVars

\* (mutant) a failed conversion goes on to the next unit with buffer.lock held
decoder_store_keeps_lock ==
    /\ decT' = StartedDecoder
    /\ \/ /\ buffer' =
                [ buffer EXCEPT
                    !.frames[buffer.write_idx] =
                        [ ready |-> TRUE, pts |-> decT.pts,
                          system_time |-> decT.display_time,
                          ref |-> TRUE,
                          id |-> hist.enqueued + 1,
                          epoch |-> hist.flushes ],
                    !.write_idx = NextIdx(buffer.write_idx),
                    !.count = buffer.count + 1 ]
          /\ hist' = [hist EXCEPT !.enqueued = @ + 1]
          /\ bufsync' = [owner |-> "none", waiters |-> {}]
       \/ /\ bufsync' = bufsync
          /\ buffer' = buffer
          /\ hist' = hist

\* sws_getContext, sws_scale and av_frame_clone have been called with
\* buffer.lock held: fill the slot at write_idx, or give up, and unlock
decoder_store ==
    /\ decT' = StartedDecoder
    /\ \/ /\ buffer' =
                [ buffer EXCEPT
                    !.frames[buffer.write_idx] =
                        [ ready |-> TRUE, pts |-> decT.pts,
                          system_time |-> decT.display_time,
                          ref |-> TRUE,
                          id |-> hist.enqueued + 1,
                          epoch |-> hist.flushes ],
                    !.write_idx = NextIdx(buffer.write_idx),
                    !.count = buffer.count + 1 ]
          /\ hist' = [hist EXCEPT !.enqueued = @ + 1]
          \* pthread_cond_broadcast
          /\ bufsync' = [owner |-> "none", waiters |-> {}]
       \/ \* the slot could not be filled (no scaler, clone or conversion
          \* failed): unlock only; a failure past the release of the
          \* previous reference leaves the slot without one
          /\ bufsync' = [bufsync EXCEPT !.owner = "none"]
          /\ \E released \in BOOLEAN :
                buffer' = IF released
                          THEN [buffer EXCEPT
                                  !.frames[buffer.write_idx].ref = FALSE]
                          ELSE buffer
          /\ hist' = hist

\* the pixel conversion and the store of the picture, buffer.lock held since
\* decoder_enqueue
decoder_convert ==
    /\ decT.pc = "convert"
    /\ decoder_store
    /\ UNCHANGED <<dec, dispT, ctl, now>>
    /\ UNCHANGED rbVars

\* after the loop: thread_running = false, the thread function returns
decoder_exit ==
    /\ decT.pc = "exit"
    /\ dec' = [dec EXCEPT !.thread_running = FALSE]
    /\ decT' = [decT EXCEPT !.pc = "exited"]
    /\ UNCHANGED <<buffer, bufsync, dispT, ctl, hist, now>>
    /\ UNCHANGED rbVars

(***************************************************************************)
(* display_thread                                                          *)
(***************************************************************************)
\* (mutant) a frame exactly 500 ms late is dropped as well
VeryLate_Inclusive(time_until_display) == time_until_display <= -VERY_LATE_NS

\* time_until_display < -500000000
VeryLate(time_until_display) == time_until_display < -VERY_LATE_NS

\* perf_monitor->frames_dropped++ (a uint32_t; its wrap is 2^32 drops away)
FramesDropped(n) == n + 1

\* the slot at read_idx leaves the buffer without being shown; no signal
DroppedHead ==
    [ buffer EXCEPT !.frames[buffer.read_idx].ready = FALSE,
                    !.read_idx = NextIdx(buffer.read_idx),
                    !.count = buffer.count - 1 ]

\* loop head: leave on stopping, idle while not playing
display_loop_head ==
    /\ dispT.pc = "top"
    /\ \/ /\ dec.stopping
          /\ dispT' = [dispT EXCEPT !.pc = "exited"]
       \/ /\ ~dec.stopping /\ dec.playing
          /\ dispT' = [dispT EXCEPT !.pc = "lock"]
    /\ UNCHANGED <<dec, buffer, bufsync, decT, ctl, hist, now>>
    /\ UNCHANGED rbVars

\* with buffer.lock held: look at the frame at read_idx and decide
display_examine ==
    LET idx == buffer.read_idx
        f == buffer.frames[idx]
    IN  IF dec.stopping
        THEN /\ dispT' = [dispT EXCEPT !.pc = "exited"]
             /\ bufsync' = [bufsync EXCEPT !.owner = "none"]
             /\ buffer' = buffer
             /\ UNCHANGED <<dec, hist>>
        ELSE IF ~f.ready \/ buffer.count = 0
        THEN /\ dispT' = [dispT EXCEPT !.pc = "top"]
             /\ bufsync' = [bufsync EXCEPT !.owner = "none"]
             /\ buffer' = buffer
             /\ UNCHANGED <<dec, hist>>
        ELSE IF f.pts < 0 \/ f.system_time = 0
        THEN /\ dispT' = [dispT EXCEPT !.pc = "top"]
             /\ bufsync' = [bufsync EXCEPT !.owner = "none"]
             /\ buffer' = DroppedHead
             /\ UNCHANGED <<dec, hist>>
        ELSE \E current_time_ms \in NowInputs :
               LET time_until_display ==
                       TimeUntilDisplay(f.system_time, current_time_ms)
                   \* history: the frame was seen more than 500 ms late
                   seen == IF f.system_time - current_time_ms < -500
                           THEN [hist EXCEPT !.lateSeen = @ \cup {f.id}]
                           ELSE hist
               IN  IF VeryLate(time_until_display)
                   THEN /\ dispT' = [dispT EXCEPT !.pc = "top"]
                        /\ bufsync' = [bufsync EXCEPT !.owner = "none"]
                        /\ buffer' = DroppedHead
                        /\ dec' = [dec EXCEPT !.frames_dropped =
                                                 FramesDropped(@)]
                        /\ hist' = [seen EXCEPT !.dropped = @ \cup {f.id}]
                   ELSE IF time_until_display > EARLY_NS
                   THEN /\ dispT' = [dispT EXCEPT !.pc = "top"]
                        /\ bufsync' = [bufsync EXCEPT !.owner = "none"]
                        /\ buffer' = buffer
                        /\ dec' = dec
                        /\ hist' = seen
                   ELSE /\ dispT' = [dispT EXCEPT !.pc = "emit",
                                                  !.current_read_idx = idx]
                        /\ bufsync' = [bufsync EXCEPT !.owner = "disp"]
                        /\ buffer' = buffer
                        /\ dec' = dec
                        /\ hist' = seen

\* take buffer.lock; wait on the condition variable if the buffer is empty
display_lock ==
    /\ dispT.pc = "lock"
    /\ LockFree
    /\ IF buffer.count = 0 /\ ~dec.stopping
       THEN /\ dispT' = [dispT EXCEPT !.pc = "empty_wait"]
            /\ bufsync' = [owner |-> "none",
                           waiters |-> bufsync.waiters \cup {"disp"}]
            /\ buffer' = buffer
            /\ UNCHANGED <<dec, hist>>
       ELSE display_examine
    /\ UNCHANGED <<decT, ctl, now>>
    /\ UNCHANGED rbVars

\* pthread_cond_wait returns: re-check stopping and count, then examine
display_wake ==
    /\ dispT.pc = "empty_wait"
    /\ "disp" \notin bufsync.waiters
    /\ LockFree
    /\ IF dec.stopping
       THEN /\ dispT' = [dispT EXCEPT !.pc = "exited"]
            /\ UNCHANGED <<buffer, bufsync, dec, hist>>
       ELSE IF buffer.count = 0
       THEN /\ dispT' = [dispT EXCEPT !.pc = "top"]
            /\ UNCHANGED <<buffer, bufsync, dec, hist>>
       ELSE display_examine
    /\ UNCHANGED <<decT, ctl, now>>
    /\ UNCHANGED rbVars

\* the frame is due: under decoder->mutex decide whether to call the sink
display_emit ==
    /\ dispT.pc = "emit"
    /\ IF ~dec.stopping /\ dec.video_cb
       THEN \* obs_frame is built from frames[read_idx]; buffer.lock released
            /\ dispT' = [dispT EXCEPT !.pc = "sink",
                                      !.frame = buffer.frames[buffer.read_idx]]
            /\ bufsync' = [bufsync EXCEPT !.owner = "none"]
       ELSE \* the else branch releases decoder->mutex only
            /\ dispT' = [dispT EXCEPT !.pc = "relock"]
            /\ bufsync' = bufsync
    /\ UNCHANGED <<dec, buffer, decT, ctl, hist, now>>
    /\ UNCHANGED rbVars

\* cb(opaque, &obs_frame); frame_pts = pts
display_sink ==
    /\ dispT.pc = "sink"
    /\ hist' = [hist EXCEPT !.shown = @ + 1, !.lastShown = dispT.frame.id]
    /\ dec' = [dec EXCEPT !.frame_pts = dispT.frame.pts]
    /\ dispT' = [dispT EXCEPT !.pc = "recycle"]
    /\ UNCHANGED <<buffer, bufsync, decT, ctl, now>>
    /\ UNCHANGED rbVars

\* release the slot remembered in current_read_idx, signal when 3 -> 2
Recycled ==
    /\ buffer' = [ buffer EXCEPT !.frames[dispT.current_read_idx].ready = FALSE,
                                 !.read_idx = NextIdx(buffer.read_idx),
                                 !.count = buffer.count - 1 ]
    /\ IF buffer.count - 1 = BUFFER_FRAMES - 1
       THEN \E w \in SignalOne(bufsync.waiters) :
               bufsync' = [owner |-> "none", waiters |-> w]
       ELSE bufsync' = [bufsync EXCEPT !.owner = "none"]
    /\ dispT' = StartedDisplay

\* pthread_mutex_lock(&buffer.lock) after the sink call, then recycle
display_recycle ==
    /\ dispT.pc = "recycle"
    /\ LockFree
    /\ Recycled
    /\ UNCHANGED <<dec, decT, ctl, hist, now>>
    /\ UNCHANGED rbVars

\* pthread_mutex_lock(&buffer.lock) by the thread that already owns it:
\* undefined for a default mutex; the call blocks for ever or returns
display_relock ==
    /\ dispT.pc = "relock"
    /\ \/ /\ dispT' = [dispT EXCEPT !.pc = "self_deadlock"]
          /\ UNCHANGED <<buffer, bufsync>>
       \/ Recycled
    /\ UNCHANGED <<dec, decT, ctl, hist, now>>
    /\ UNCHANGED rbVars

(***************************************************************************)
(* Controller: the decoder API as the plugin calls it                      *)
(***************************************************************************)
\* the host may start another API call
CanCall == ctl.pc = "idle" /\ ctl.calls < ctl.budget

\* an API call that completes in one step
Returned(op, ret) ==
    ctl' = [ctl EXCEPT !.pc = "idle", !.op = "none", !.ret = ret,
                       !.calls = ctl.calls + 1]

\* ffmpeg_decoder_is_paused_ready
ffmpeg_decoder_is_paused_ready ==
    dec.initialized /\ dec.state = DECODER_STATE_PAUSED_READY

\* stop_thread, first part: interrupt, stopping = true, playing = false
stop_thread_begin(op) ==
    /\ dec' = [dec EXCEPT !.interrupt_request = TRUE, !.stopping = TRUE,
                          !.playing = FALSE]
    /\ ctl' = [ctl EXCEPT !.pc = "st_wake", !.op = op, !.ret = FALSE,
                           !.calls = ctl.calls + 1]
    /\ hist' = [hist EXCEPT !.shown = 0, !.lastShown = 0]
    /\ UNCHANGED <<buffer, bufsync, decT, dispT, now>>

\* ffmpeg_decoder_stop_thread called by the host (deferred-stop timer, destroy)
ffmpeg_decoder_stop_thread ==
    /\ CanCall
    /\ stop_thread_begin("stop_thread")
    /\ UNCHANGED rbVars

\* stop_thread: broadcast on buffer.cond under buffer.lock
stop_thread_wake ==
    /\ ctl.pc = "st_wake"
    /\ LockFree
    /\ bufsync' = [bufsync EXCEPT !.waiters = {}]
    /\ ctl' = [ctl EXCEPT !.pc = IF dec.display_thread_created
                                 THEN "st_join_display" ELSE "st_check"]
    /\ UNCHANGED <<dec, buffer, decT, dispT, hist, now>>
    /\ UNCHANGED rbVars

\* stop_thread: pthread_join(display_thread); display_thread_created = false
stop_thread_join_display ==
    /\ ctl.pc = "st_join_display"
    /\ dispT.pc = "exited"
    /\ dec' = [dec EXCEPT !.display_thread_created = FALSE]
    /\ ctl' = [ctl EXCEPT !.pc = "st_check"]
    /\ hist' = [hist EXCEPT !.unjoined = @ \ {"display"}]
    /\ UNCHANGED <<buffer, bufsync, decT, dispT, now>>
    /\ UNCHANGED rbVars

\* stop_thread returns (stopping = false); initialize goes on to open the file
stop_thread_return(d) ==
    /\ dec' = [d EXCEPT !.stopping = FALSE]
    /\ ctl' = [ctl EXCEPT !.pc = IF ctl.op = "initialize"
                                 THEN "init_open" ELSE "idle",
                           !.op = IF ctl.op = "initialize" THEN @ ELSE "none"]

\* stop_thread: if (thread_running) ... else return
stop_thread_check ==
    /\ ctl.pc = "st_check"
    /\ IF dec.thread_running
       THEN /\ ctl' = [ctl EXCEPT !.pc = "st_join_decoder"]
            /\ dec' = dec
       ELSE stop_thread_return(dec)
    /\ UNCHANGED <<buffer, bufsync, decT, dispT, hist, now>>
    /\ UNCHANGED rbVars

\* stop_thread: pthread_join(thread); thread_running = false; return
stop_thread_join_decoder ==
    /\ ctl.pc = "st_join_decoder"
    /\ decT.pc = "exited"
    /\ stop_thread_return([dec EXCEPT !.thread_running = FALSE])
    /\ hist' = [hist EXCEPT !.unjoined = @ \ {"decoder"}]
    /\ UNCHANGED <<buffer, bufsync, decT, dispT, now>>
    /\ UNCHANGED rbVars

\* ffmpeg_decoder_initialize: missing file returns at once, else stop_thread
ffmpeg_decoder_initialize ==
    /\ CanCall
    /\ \/ /\ Returned("initialize", FALSE)
          /\ UNCHANGED <<dec, buffer, bufsync, decT, dispT, hist, now>>
       \/ stop_thread_begin("initialize")
    /\ UNCHANGED rbVars

\* initialize after stop_thread: clear the ready flags, open the file
initialize_open ==
    /\ ctl.pc = "init_open"
    /\ buffer' = [buffer EXCEPT !.frames =
                     [i \in BufSlots |-> [buffer.frames[i] EXCEPT !.ready = FALSE]]]
    /\ \E ok \in BOOLEAN :
          /\ dec' = [dec EXCEPT !.interrupt_request = FALSE,
                                !.initialized = @ \/ ok,
                                !.format_pos = IF ok THEN 0 ELSE @]
          /\ ctl' = [ctl EXCEPT !.pc = "idle", !.op = "none", !.ret = ok]
    /\ hist' = [hist EXCEPT !.shown = 0, !.lastShown = 0]
    /\ UNCHANGED <<bufsync, decT, dispT, now>>
    /\ UNCHANGED rbVars

\* the threads play_with_timeline creates: a display thread if
\* !display_thread_created, a decode thread if !thread_running
Created(d) ==
    (IF d.display_thread_created THEN {} ELSE {"display"})
        \cup (IF d.thread_running THEN {} ELSE {"decoder"})

\* ffmpeg_decoder_play_with_timeline up to the thread creation
ffmpeg_decoder_play_with_timeline ==
    /\ CanCall
    /\ IF ~dec.initialized
       THEN /\ Returned("play", FALSE)
            /\ UNCHANGED <<dec, decT, dispT, hist>>
       ELSE /\ dec' = [dec EXCEPT !.interrupt_request = FALSE,
                                  !.state = DECODER_STATE_PLAYING,
                                  !.playing = TRUE, !.looping = TRUE,
                                  !.waiting_for_first_frame = TRUE,
                                  !.stopping = FALSE,
                                  !.display_thread_created = TRUE,
                                  !.thread_running = TRUE]
            /\ dispT' = IF dec.display_thread_created THEN dispT ELSE StartedDisplay
            /\ decT' = IF dec.thread_running THEN decT ELSE StartedDecoder
            /\ ctl' = [ctl EXCEPT !.pc = "play_signal", !.op = "play",
                                   !.ret = TRUE, !.calls = ctl.calls + 1]
            /\ hist' = [hist EXCEPT
                          !.armed = TRUE,
                          !.unjoined = @ \cup Created(dec)]
    /\ UNCHANGED <<buffer, bufsync, now>>
    /\ UNCHANGED rbVars

\* play_with_timeline, tail: one pthread_cond_signal under buffer.lock
play_signal ==
    /\ ctl.pc = "play_signal"
    /\ LockFree
    /\ \E w \in SignalOne(bufsync.waiters) :
          bufsync' = [bufsync EXCEPT !.waiters = w]
    /\ ctl' = [ctl EXCEPT !.pc = "idle", !.op = "none"]
    /\ UNCHANGED <<dec, buffer, decT, dispT, hist, now>>
    /\ UNCHANGED rbVars

\* ffmpeg_decoder_pause
ffmpeg_decoder_pause ==
    /\ CanCall
    /\ dec' = [dec EXCEPT !.playing = FALSE]
    /\ Returned("pause", TRUE)
    /\ UNCHANGED <<buffer, bufsync, decT, dispT, hist, now>>
    /\ UNCHANGED rbVars

\* ffmpeg_decoder_stop
ffmpeg_decoder_stop ==
    /\ CanCall
    /\ dec' = [dec EXCEPT !.state = DECODER_STATE_STOPPED, !.playing = FALSE]
    /\ Returned("stop", TRUE)
    /\ UNCHANGED <<buffer, bufsync, decT, dispT, hist, now>>
    /\ UNCHANGED rbVars

\* ffmpeg_decoder_seek
ffmpeg_decoder_seek(position_us) ==
    /\ CanCall
    /\ IF dec.initialized
       THEN dec' = [dec EXCEPT !.seek_request = TRUE, !.seek_target = position_us]
       ELSE dec' = dec
    /\ hist' = IF dec.initialized THEN [hist EXCEPT !.lastSeek = position_us]
                                  ELSE hist
    /\ Returned("seek", dec.initialized)
    /\ UNCHANGED <<buffer, bufsync, decT, dispT, now>>
    /\ UNCHANGED rbVars

\* ffmpeg_decoder_set_callbacks: stores the pointers, takes no lock; video_cb
\* stands for "video_cb and opaque are both set"
ffmpeg_decoder_set_callbacks ==
    /\ CanCall
    /\ \E video_cb \in BOOLEAN : dec' = [dec EXCEPT !.video_cb = video_cb]
    /\ Returned("set_callbacks", ctl.ret)
    /\ UNCHANGED <<buffer, bufsync, decT, dispT, hist, now>>
    /\ UNCHANGED rbVars

\* (mutant) a state exactly 10000 ms old already counts as expired
StateExpired_AtBound(current_time, preserved_time) ==
    current_time - preserved_time >= RESUME_WINDOW_MS

\* current_time - decoder->state_preserved_time > 10000
StateExpired(current_time, preserved_time) ==
    current_time - preserved_time > RESUME_WINDOW_MS

\* ffmpeg_decoder_pause_ready
ffmpeg_decoder_pause_ready ==
    /\ CanCall
    /\ IF dec.initialized
       THEN /\ dec' = [dec EXCEPT
                        !.state = DECODER_STATE_PAUSED_READY,
                        !.state_preserved_time = now,
                        !.preserved_playback_position = dec.frame_pts,
                        !.seek_was_in_progress = dec.seek_request,
                        !.preserved_seek_position =
                            IF dec.seek_request THEN dec.seek_target ELSE @,
                        !.playing = FALSE]
            /\ hist' = [hist EXCEPT !.pausedAt = now]
       ELSE UNCHANGED <<dec, hist>>
    /\ Returned("pause_ready", dec.initialized)
    /\ UNCHANGED <<buffer, bufsync, decT, dispT, now>>
    /\ UNCHANGED rbVars

\* ffmpeg_decoder_resume up to the release of decoder->mutex
ffmpeg_decoder_resume ==
    /\ CanCall
    /\ IF ~dec.initialized \/ dec.state # DECODER_STATE_PAUSED_READY
       THEN /\ dec' = dec
            /\ Returned("resume", FALSE)
       ELSE IF StateExpired(now, dec.state_preserved_time)
       THEN /\ dec' = [dec EXCEPT !.state = DECODER_STATE_STOPPED]
            /\ Returned("resume", FALSE)
       ELSE /\ dec' = [dec EXCEPT
                        !.state = DECODER_STATE_PLAYING,
                        !.playing = TRUE,
                        !.seek_request = @ \/ dec.seek_was_in_progress,
                        !.seek_target = IF dec.seek_was_in_progress
                                        THEN dec.preserved_seek_position ELSE @]
            /\ ctl' = [ctl EXCEPT !.pc = "resume_signal", !.op = "resume",
                                   !.ret = TRUE, !.calls = ctl.calls + 1]
    /\ UNCHANGED <<buffer, bufsync, decT, dispT, hist, now>>
    /\ UNCHANGED rbVars

\* resume, tail: one pthread_cond_signal under buffer.lock, return true
resume_signal ==
    /\ ctl.pc = "resume_signal"
    /\ LockFree
    /\ \E w \in SignalOne(bufsync.waiters) :
          bufsync' = [bufsync EXCEPT !.waiters = w]
    /\ ctl' = [ctl EXCEPT !.pc = "idle", !.op = "none"]
    /\ UNCHANGED <<dec, buffer, decT, dispT, hist, now>>
    /\ UNCHANGED rbVars

\* os_gettime_ns advances; pause_ready and resume are its only readers here,
\* so the clock moves between API calls
Tick ==
    /\ ctl.pc = "idle"
    /\ hist.ticks < MaxTicks
    /\ \E d \in TickSteps : now' = now + d
    /\ hist' = [hist EXCEPT !.ticks = @ + 1]
    /\ UNCHANGED <<dec, buffer, bufsync, decT, dispT, ctl>>
    /\ UNCHANGED rbVars

(***************************************************************************)
(* Part III: frame cache                                                   *)
(***************************************************************************)
\* API calls made on the cache in one run of the model
MaxCacheCalls == 3

FRAME_CACHE_SIZE == 30
CACHE_EMPTY == 0
CACHE_LOADING == 1
CACHE_READY == 2

CacheSlots == 0 .. (FRAME_CACHE_SIZE - 1)

\* pts values passed to get and put: the pts of slots 0 and 1 of a cache
\* filled in order, and one pts such a cache does not hold
CachePts == {0, 33000, 990000}
\* frames passed to put (what av_frame_clone copies), other than the frames
\* 1 .. 30 of the fill
CacheFrames == {101, 102}

\* a struct cached_frame after frame_cache_init; frame 0 is NULL.  ref_count
\* holds the 32-bit pattern as the LONG the atomic operations read and write:
\* -1 is 0xFFFFFFFF.  The BGRA copy is owned and freed with the frame and is
\* not modelled separately.
EmptyEntry ==
    [ frame |-> 0, pts |-> 0, ref_count |-> 0, state |-> CACHE_EMPTY,
      last_access_time |-> 0, access_count |-> 0 ]

\* frame_cache_init
CacheCreated ==
    [ entries |-> [i \in CacheSlots |-> EmptyEntry],
      current_gen |-> 1, hits |-> 0, misses |-> 0, evictions |-> 0,
      insertions |-> 0, enabled |-> TRUE ]

\* an entry the code treats as pinned: ref_count != 0
Pinned(e) == e.ref_count # 0

\* the loop of find_lru_entry from slot i on; lru_idx = -1 stands for
\* oldest_time = UINT64_MAX (no candidate yet)
RECURSIVE LruScan(_, _, _, _)
LruScan(entries, i, oldest_time, lru_idx) ==
    IF i = FRAME_CACHE_SIZE THEN lru_idx
    ELSE IF entries[i].state = CACHE_EMPTY THEN i
    ELSE IF /\ entries[i].state = CACHE_READY
            /\ entries[i].ref_count = 0
            /\ (lru_idx = -1 \/ entries[i].last_access_time < oldest_time)
         THEN LruScan(entries, i + 1, entries[i].last_access_time, i)
         ELSE LruScan(entries, i + 1, oldest_time, lru_idx)

\* (mutant) the scan takes pinned entries as candidates too
RECURSIVE LruScanAnyRef(_, _, _, _)
LruScanAnyRef(entries, i, oldest_time, lru_idx) ==
    IF i = FRAME_CACHE_SIZE THEN lru_idx
    ELSE IF entries[i].state = CACHE_EMPTY THEN i
    ELSE IF /\ entries[i].state = CACHE_READY
            /\ (lru_idx = -1 \/ entries[i].last_access_time < oldest_time)
         THEN LruScanAnyRef(entries, i + 1, entries[i].last_access_time, i)
         ELSE LruScanAnyRef(entries, i + 1, oldest_time, lru_idx)

\* (mutant) the scan keeps the most recently used candidate
RECURSIVE LruScanNewest(_, _, _, _)
LruScanNewest(entries, i, oldest_time, lru_idx) ==
    IF i = FRAME_CACHE_SIZE THEN lru_idx
    ELSE IF entries[i].state = CACHE_EMPTY THEN i
    ELSE IF /\ entries[i].state = CACHE_READY
            /\ entries[i].ref_count = 0
            /\ (lru_idx = -1 \/ entries[i].last_access_time > oldest_time)
         THEN LruScanNewest(entries, i + 1, entries[i].last_access_time, i)
         ELSE LruScanNewest(entries, i + 1, oldest_time, lru_idx)

\* (mutant) any slot, pinned or not
find_lru_entry_any_ref(c) == LruScanAnyRef(c.entries, 0, 0, -1)

\* (mutant) the most recently used unpinned slot
find_lru_entry_newest(c) == LruScanNewest(c.entries, 0, 0, -1)

\* find_lru_entry: the first Empty slot met, else the first unpinned Ready
\* slot with the smallest last_access_time, else -1
find_lru_entry(c) == LruScan(c.entries, 0, 0, -1)

\* the scan of frame_cache_get: the first Ready slot with that pts, else -1
RECURSIVE GetScan(_, _, _)
GetScan(entries, pts, i) ==
    IF i = FRAME_CACHE_SIZE THEN -1
    ELSE IF entries[i].state = CACHE_READY /\ entries[i].pts = pts THEN i
    ELSE GetScan(entries, pts, i + 1)

\* atomic_increment_32 / atomic_decrement_32 on the 32-bit pattern
Inc32(r) == IF r = 2147483647 THEN -2147483647 - 1 ELSE r + 1
Dec32(r) == IF r = -2147483647 - 1 THEN 2147483647 ELSE r - 1

\* frame_cache_get at time t (os_gettime_ns): the cache after the call and
\* the slot of the entry returned (-1 for NULL)
CacheGet(c, pts, t) ==
    LET i == GetScan(c.entries, pts, 0) IN
    IF ~c.enabled THEN [cache |-> c, entry |-> -1]
    ELSE IF i >= 0
    THEN [ cache |-> [c EXCEPT !.entries[i].last_access_time = t,
                               !.entries[i].access_count = @ + 1,
                               !.entries[i].ref_count = Inc32(@),
                               !.hits = @ + 1],
           entry |-> i ]
    ELSE [ cache |-> [c EXCEPT !.misses = @ + 1], entry |-> -1 ]

\* frame_cache_put of a non-NULL frame at time t; cloned tells whether
\* av_frame_clone succeeded.  The cache after the call and the value returned.
CachePut(c, frame, pts, t, cloned) ==
    LET slot    == find_lru_entry(c)
        evicted == IF slot >= 0 /\ c.entries[slot].frame # 0
                   THEN c.evictions + 1 ELSE c.evictions
    IN
    IF ~c.enabled \/ slot < 0 THEN [cache |-> c, ret |-> FALSE]
    ELSE IF ~cloned
    THEN [ cache |-> [c EXCEPT !.entries[slot].state = CACHE_EMPTY,
                               !.entries[slot].frame = 0,
                               !.evictions = evicted],
           ret |-> FALSE ]
    ELSE [ cache |-> [c EXCEPT !.entries[slot] =
                                   [ frame |-> frame, pts |-> pts,
                                     ref_count |-> 0, state |-> CACHE_READY,
                                     last_access_time |-> t,
                                     access_count |-> 0 ],
                               !.evictions = evicted,
                               !.insertions = @ + 1],
           ret |-> TRUE ]

\* frame_cache_release of the entry in slot i
CacheRelease(c, i) == [c EXCEPT !.entries[i].ref_count = Dec32(@)]

\* frame_cache_invalidate: every slot Empty, every frame freed, whatever
\* its ref_count
CacheInvalidate(c) ==
    [c EXCEPT !.current_gen = @ + 1,
              !.entries = [i \in CacheSlots |->
                             [c.entries[i] EXCEPT !.state = CACHE_EMPTY,
                                                  !.frame = 0]]]

\* The cache after FRAME_CACHE_SIZE puts of frames 1, 2, ... with pts 0,
\* 33000, ... at times 1, 2, ... (one decode pass over the first pictures:
\* put k fills slot k - 1, the first Empty one), followed by one get at time
\* FRAME_CACHE_SIZE + k + 1 for the pts of every slot k in S
FilledAndPinned(S) ==
    [ CacheCreated EXCEPT
        !.entries = [i \in CacheSlots |->
                       [ frame |-> i + 1, pts |-> i * 33000,
                         ref_count |-> IF i \in S THEN 1 ELSE 0,
                         state |-> CACHE_READY,
                         last_access_time |-> IF i \in S
                                              THEN FRAME_CACHE_SIZE + i + 1
                                              ELSE i + 1,
                         access_count |-> IF i \in S THEN 1 ELSE 0 ]],
        !.insertions = FRAME_CACHE_SIZE,
        !.hits = Cardinality(S) ]

\* the sets of slots whose entries are held when the model starts: none, all,
\* all but the last, all but the first
WarmPinSets == { {}, CacheSlots, CacheSlots \ {FRAME_CACHE_SIZE - 1},
                 CacheSlots \ {0} }

\* what a caller keeps from a successful get: the slot and what it held
PinOf(c, i) == [slot |-> i, pts |-> c.entries[i].pts, frame |-> c.entries[i].frame]

RECURSIVE PinsOf(_, _, _)
PinsOf(c, S, n) ==
    IF n = 0 THEN <<>>
    ELSE IF (n - 1) \in S THEN Append(PinsOf(c, S, n - 1), PinOf(c, n - 1))
         ELSE PinsOf(c, S, n - 1)

\* no call made yet
NoCacheCall ==
    [ n |-> 0, op |-> "none", pts |-> 0, frame |-> 0, entry |-> -1,
      ret |-> FALSE, invalidated |-> FALSE ]

\* the decoder and the plugin construct no frame cache
CacheAbsent ==
    [ entries |-> <<>>, current_gen |-> 0, hits |-> 0, misses |-> 0,
      evictions |-> 0, insertions |-> 0, enabled |-> FALSE ]

\* no thread is inside a call on the cache
NoCacheThread ==
    [ put |-> [pc |-> "idle", slot |-> -1, frame |-> 0, pts |-> 0, ret |-> FALSE],
      inv |-> [pc |-> "idle", i |-> 0] ]

\* the cache is not in use
CacheIdle ==
    /\ cache = CacheAbsent
    /\ pins = <<>>
    /\ cacheRes = NoCacheCall
    /\ ctime = 0
    /\ cacheT = NoCacheThread

\* a new cache, or a cache filled by one decode pass with some entries held
CacheWarm ==
    /\ \/ /\ cache = CacheCreated
          /\ pins = <<>>
          /\ ctime = 0
       \/ \E S \in WarmPinSets :
             /\ cache = FilledAndPinned(S)
             /\ pins = PinsOf(FilledAndPinned(S), S, FRAME_CACHE_SIZE)
             /\ ctime = 2 * FRAME_CACHE_SIZE
    /\ cacheRes = NoCacheCall
    /\ cacheT = NoCacheThread

CanCallCache == cacheRes.n < MaxCacheCalls

\* os_gettime_ns() read by a call: not before the last reading
CacheTimes == {ctime, ctime + 1}

\* what the last call was, what it was given and what it returned
CacheCalled(op, pts, frame, entry, ret) ==
    [ n |-> cacheRes.n + 1, op |-> op, pts |-> pts, frame |-> frame,
      entry |-> entry, ret |-> ret,
      invalidated |-> cacheRes.invalidated \/ op = "invalidate" ]

frame_cache_get ==
    /\ CanCallCache
    /\ \E pts \in CachePts, t \in CacheTimes :
          LET r == CacheGet(cache, pts, t) IN
          /\ cache' = r.cache
          /\ pins' = IF r.entry >= 0 THEN Append(pins, PinOf(r.cache, r.entry))
                                     ELSE pins
          /\ cacheRes' = CacheCalled("get", pts, 0, r.entry, r.entry >= 0)
          /\ ctime' = t
    /\ UNCHANGED <<cacheT, clock, clockRes, hw, tmr>>
    /\ UNCHANGED coreVars

frame_cache_put ==
    /\ CanCallCache
    /\ \E frame \in CacheFrames, pts \in CachePts, t \in CacheTimes,
          cloned \in BOOLEAN :
          LET r == CachePut(cache, frame, pts, t, cloned) IN
          /\ cache' = r.cache
          /\ cacheRes' = CacheCalled("put", pts, frame, find_lru_entry(cache),
                                     r.ret)
          /\ ctime' = t
    /\ pins' = pins
    /\ UNCHANGED <<cacheT, clock, clockRes, hw, tmr>>
    /\ UNCHANGED coreVars

\* the release that matches an earlier successful get
frame_cache_release ==
    /\ CanCallCache
    /\ \E k \in 1 .. Len(pins) :
          /\ pins[k].pts \in CachePts
          /\ cache' = CacheRelease(cache, pins[k].slot)
          /\ pins' = [j \in 1 .. (Len(pins) - 1) |->
                         IF j < k THEN pins[j] ELSE pins[j + 1]]
          /\ cacheRes' = CacheCalled("release", pins[k].pts, pins[k].frame,
                                     pins[k].slot, TRUE)
    /\ ctime' = ctime
    /\ UNCHANGED <<cacheT, clock, clockRes, hw, tmr>>
    /\ UNCHANGED coreVars

frame_cache_invalidate ==
    /\ CanCallCache
    /\ cache' = CacheInvalidate(cache)
    /\ cacheRes' = CacheCalled("invalidate", 0, 0, -1, TRUE)
    /\ UNCHANGED <<pins, ctime>>
    /\ UNCHANGED <<cacheT, clock, clockRes, hw, tmr>>
    /\ UNCHANGED coreVars

CacheNext ==
    \/ frame_cache_get
    \/ frame_cache_put
    \/ frame_cache_release
    \/ frame_cache_invalidate

(***************************************************************************)
(* frame_cache_put in one thread and frame_cache_invalidate in another,    *)
(* statement by statement.  cache->lock is taken by put alone, so it keeps *)
(* nothing out.                                                            *)
(***************************************************************************)
\* put: lock, find_lru_entry, mark the slot LOADING (or unlock, return false)
put_find_slot ==
    /\ cacheT.put.pc = "idle"
    /\ \E frame \in CacheFrames, pts \in CachePts :
          LET slot == find_lru_entry(cache) IN
          IF slot < 0
          THEN /\ cacheT' = [cacheT EXCEPT !.put.pc = "done", !.put.ret = FALSE]
               /\ cache' = cache
          ELSE /\ cacheT' = [cacheT EXCEPT !.put = [pc |-> "evict", slot |-> slot,
                                                    frame |-> frame, pts |-> pts,
                                                    ret |-> FALSE]]
               /\ cache' = [cache EXCEPT !.entries[slot].state = CACHE_LOADING]
    /\ UNCHANGED <<pins, cacheRes, ctime, clock, clockRes, hw, tmr>>
    /\ UNCHANGED coreVars

\* put: free the frame the slot holds, count the eviction
put_evict ==
    /\ cacheT.put.pc = "evict"
    /\ cache' = IF cache.entries[cacheT.put.slot].frame # 0
                THEN [cache EXCEPT !.entries[cacheT.put.slot].frame = 0,
                                   !.evictions = @ + 1]
                ELSE cache
    /\ cacheT' = [cacheT EXCEPT !.put.pc = "clone"]
    /\ UNCHANGED <<pins, cacheRes, ctime, clock, clockRes, hw, tmr>>
    /\ UNCHANGED coreVars

\* put: av_frame_clone into the slot; on failure state EMPTY, unlock, return
put_clone ==
    /\ cacheT.put.pc = "clone"
    /\ \E cloned \in BOOLEAN :
          IF cloned
          THEN /\ cache' = [cache EXCEPT !.entries[cacheT.put.slot].frame =
                                             cacheT.put.frame]
               /\ cacheT' = [cacheT EXCEPT !.put.pc = "publish"]
          ELSE /\ cache' = [cache EXCEPT !.entries[cacheT.put.slot].frame = 0,
                                         !.entries[cacheT.put.slot].state =
                                             CACHE_EMPTY]
               /\ cacheT' = [cacheT EXCEPT !.put.pc = "done", !.put.ret = FALSE]
    /\ UNCHANGED <<pins, cacheRes, ctime, clock, clockRes, hw, tmr>>
    /\ UNCHANGED coreVars

\* put: metadata, state READY, insertions, unlock, return true
put_publish ==
    /\ cacheT.put.pc = "publish"
    /\ cache' = [cache EXCEPT
                   !.entries[cacheT.put.slot].pts = cacheT.put.pts,
                   !.entries[cacheT.put.slot].last_access_time = ctime + 1,
                   !.entries[cacheT.put.slot].access_count = 0,
                   !.entries[cacheT.put.slot].ref_count = 0,
                   !.entries[cacheT.put.slot].state = CACHE_READY,
                   !.insertions = @ + 1]
    /\ ctime' = ctime + 1
    /\ cacheT' = [cacheT EXCEPT !.put.pc = "done", !.put.ret = TRUE]
    /\ UNCHANGED <<pins, cacheRes, clock, clockRes, hw, tmr>>
    /\ UNCHANGED coreVars

\* invalidate: atomic_increment_32(&cache->current_gen)
invalidate_bump_gen ==
    /\ cacheT.inv.pc = "idle"
    /\ cache' = [cache EXCEPT !.current_gen = @ + 1]
    /\ cacheT' = [cacheT EXCEPT !.inv = [pc |-> "state", i |-> 0]]
    /\ UNCHANGED <<pins, cacheRes, ctime, clock, clockRes, hw, tmr>>
    /\ UNCHANGED coreVars

\* invalidate, slot i: atomic_store_32(&entries[i].state, CACHE_EMPTY)
invalidate_clear_state ==
    /\ cacheT.inv.pc = "state"
    /\ cache' = [cache EXCEPT !.entries[cacheT.inv.i].state = CACHE_EMPTY]
    /\ cacheT' = [cacheT EXCEPT !.inv.pc = "free"]
    /\ UNCHANGED <<pins, cacheRes, ctime, clock, clockRes, hw, tmr>>
    /\ UNCHANGED coreVars

\* invalidate, slot i: if (entries[i].frame) av_frame_free; on to slot i + 1
invalidate_free ==
    /\ cacheT.inv.pc = "free"
    /\ cache' = [cache EXCEPT !.entries[cacheT.inv.i].frame = 0]
    /\ cacheT' = IF cacheT.inv.i + 1 = FRAME_CACHE_SIZE
                 THEN [cacheT EXCEPT !.inv.pc = "done"]
                 ELSE [cacheT EXCEPT !.inv = [pc |-> "state", i |-> @.i + 1]]
    /\ UNCHANGED <<pins, cacheRes, ctime, clock, clockRes, hw, tmr>>
    /\ UNCHANGED coreVars

CacheRaceNext ==
    \/ put_find_slot
    \/ put_evict
    \/ put_clone
    \/ put_publish
    \/ invalidate_bump_gen
    \/ invalidate_clear_state
    \/ invalidate_free

(***************************************************************************)
(* Part IV: clock                                                          *)
(***************************************************************************)
\* calls made on the clock in one run of the model
MaxClockCalls == 4

\* pts values (microseconds) passed to clock_reset and to
\* clock_get_system_time_for_pts
ClockPts == {0, 500, 33000, 33999, 66000}
\* values of os_gettime_ns() read by clock_reset
ClockNowNs == {1000000000, 1999999999}

\* decoder->clock after ffmpeg_decoder_create (bzalloc, playback_rate = 1.0)
ClockCreated ==
    [ system_start |-> 0, media_start_pts |-> 0, playback_rate |-> 1,
      last_pts |-> 0, last_system |-> 0 ]

\* os_gettime_ns() / 1000000
NsToMs(ns) == ns \div 1000000

\* pts - decoder->clock.media_start_pts
PtsDelta(c, pts) == pts - c.media_start_pts

\* (mutant) the quotient is rounded up to the next millisecond
SystemDeltaMs_Ceil(c, pts_delta) ==
    (pts_delta + 1000 * c.playback_rate - 1) \div (1000 * c.playback_rate)

\* (uint64_t)((double)pts_delta / (1000.0 * playback_rate)) for a quotient
\* above -1: the conversion drops the fraction
SystemDeltaMs(c, pts_delta) ==
    IF pts_delta >= 0 THEN pts_delta \div (1000 * c.playback_rate) ELSE 0

\* The values clock_get_system_time_for_pts can return.  A quotient of -1 or
\* less is outside the range of uint64_t and its conversion is undefined:
\* builds give the two's complement (the sum then lies before system_start)
\* or saturate at 0.
TargetTimes(c, pts) ==
    LET pts_delta == PtsDelta(c, pts) IN
    IF pts_delta > -1000 * c.playback_rate
    THEN { c.system_start + SystemDeltaMs(c, pts_delta) }
    ELSE { c.system_start - ((-pts_delta) \div (1000 * c.playback_rate)),
           c.system_start }

\* no call made yet in this epoch
NoClockCall == [n |-> 0, asked |-> {}]

ClockIdle ==
    /\ clock = ClockCreated
    /\ clockRes = NoClockCall

CanCallClock == clockRes.n < MaxClockCalls

\* clock_reset(start_pts): a new epoch
clock_reset ==
    /\ CanCallClock
    /\ \E start_pts \in ClockPts, ns \in ClockNowNs :
          clock' = [clock EXCEPT !.system_start = NsToMs(ns),
                                 !.media_start_pts = start_pts,
                                 !.last_pts = start_pts,
                                 !.last_system = NsToMs(ns)]
    /\ clockRes' = [n |-> clockRes.n + 1, asked |-> {}]
    /\ UNCHANGED <<cache, pins, cacheRes, ctime, cacheT, hw, tmr>>
    /\ UNCHANGED coreVars

\* clock_get_system_time_for_pts(pts); asked keeps the pts and the value
\* returned of every call of the epoch
clock_get_system_time_for_pts ==
    /\ CanCallClock
    /\ \E pts \in ClockPts :
          \E target_time \in TargetTimes(clock, pts) :
             clockRes' = [n |-> clockRes.n + 1,
                          asked |-> clockRes.asked \cup
                                      {[pts |-> pts, target_time |-> target_time]}]
    /\ clock' = clock
    /\ UNCHANGED <<cache, pins, cacheRes, ctime, cacheT, hw, tmr>>
    /\ UNCHANGED coreVars

\* clock_update(pts)
clock_update ==
    /\ CanCallClock
    /\ \E pts \in ClockPts, ns \in ClockNowNs :
          clock' = [clock EXCEPT !.last_pts = pts, !.last_system = NsToMs(ns)]
    /\ clockRes' = [clockRes EXCEPT !.n = @ + 1]
    /\ UNCHANGED <<cache, pins, cacheRes, ctime, cacheT, hw, tmr>>
    /\ UNCHANGED coreVars

ClockNext ==
    \/ clock_reset
    \/ clock_get_system_time_for_pts
    \/ clock_update

(***************************************************************************)
(* Part V: the accelerated path of the decode thread                       *)
(***************************************************************************)
\* calls and transfers explored
MaxHwSteps == 9

\* if (hw_failure_count > 5)
HW_FAILURE_LIMIT == 5

\* the decoders of the process, one per source
Decoders == {1, 2}

\* process start: no decoder initialized, static int hw_failure_count = 0;
\* run (history): failed transfers of the decoder since its last successful
\* transfer or initialize
HwCreated ==
    [ hw_failure_count |-> 0,
      hw_decoding_active |-> [d \in Decoders |-> FALSE],
      run |-> [d \in Decoders |-> 0],
      n |-> 0 ]

HwIdle == hw = HwCreated

\* ffmpeg_decoder_initialize: hw_decoding_active = false, then true when
\* init_hw_decoder succeeds and the codec opens with it
hw_initialize ==
    /\ hw.n < MaxHwSteps
    /\ \E d \in Decoders, hw_init_success \in BOOLEAN :
          hw' = [hw EXCEPT !.hw_decoding_active[d] = hw_init_success,
                           !.run[d] = 0,
                           !.n = @ + 1]
    /\ UNCHANGED coreVars
    /\ UNCHANGED <<cache, pins, cacheRes, ctime, cacheT, clock, clockRes, tmr>>

\* decoder_thread, a picture in the hardware format while
\* hw_decoding_active: av_hwframe_transfer_data fails, or succeeds and the
\* scaler for the transferred picture exists or cannot be created
hw_transfer ==
    /\ hw.n < MaxHwSteps
    /\ \E d \in Decoders :
          /\ hw.hw_decoding_active[d]
          /\ \/ \* ret < 0: hw_failure_count++, fall back above the limit
                LET count == hw.hw_failure_count + 1
                IN  hw' = IF count > HW_FAILURE_LIMIT
                          THEN [hw EXCEPT !.hw_failure_count = 0,
                                          !.hw_decoding_active[d] = FALSE,
                                          !.run[d] = @ + 1,
                                          !.n = @ + 1]
                          ELSE [hw EXCEPT !.hw_failure_count = count,
                                          !.run[d] = @ + 1,
                                          !.n = @ + 1]
             \/ \* transferred
                \E scaler \in BOOLEAN :
                   hw' = [hw EXCEPT !.hw_decoding_active[d] = scaler,
                                    !.run[d] = 0,
                                    !.n = @ + 1]
    /\ UNCHANGED coreVars
    /\ UNCHANGED <<cache, pins, cacheRes, ctime, cacheT, clock, clockRes, tmr>>

HwNext ==
    \/ hw_initialize
    \/ hw_transfer

(***************************************************************************)
(* Part VI: the deferred stop of the plugin (lockfree-ringbuffer.c)        *)
(***************************************************************************)
\* deactivations explored, and the last instant (ms)
MaxTimers == 2
MaxTimerTime == 2200

\* #define DECODER_SHUTDOWN_DELAY_MS 2000
DECODER_SHUTDOWN_DELAY_MS == 2000

\* os_sleep_ms(100) in deactivate_timer_thread
TIMER_POLL_MS == 100

Timers == 1 .. MaxTimers

\* no thread; born, reactivated and stopped are history: the instant of the
\* deactivation that created the thread, fvs_activate has run within the
\* grace period of that deactivation, the thread has called
\* ffmpeg_decoder_stop_thread
NoTimer ==
    [pc |-> "none", target_time |-> 0, wake |-> 0,
     born |-> 0, reactivated |-> FALSE, stopped |-> FALSE]

\* an active source with a decoder: no timer pending; time is
\* os_gettime_ns() / 1000000, n the number of deactivations so far
SourceShown ==
    [ time |-> 0, shown |-> TRUE,
      deactivate_timer_active |-> FALSE, deactivate_time |-> 0,
      timers |-> [i \in Timers |-> NoTimer], n |-> 0 ]

TimerIdle == tmr = SourceShown

\* fvs_deactivate: deactivate_time = now, deactivate_timer_active = true
\* under s->mutex, then pthread_create of the timer thread (the call of
\* pause_ready on the decoder is followed in SpecSeek)
deactivate_start_timer ==
    /\ tmr.shown
    /\ tmr.n < MaxTimers
    /\ tmr' = [tmr EXCEPT !.shown = FALSE,
                          !.deactivate_time = tmr.time,
                          !.deactivate_timer_active = TRUE,
                          !.n = @ + 1,
                          !.timers[tmr.n + 1] =
                              [NoTimer EXCEPT !.pc = "start", !.born = tmr.time]]
    /\ UNCHANGED coreVars
    /\ UNCHANGED <<cache, pins, cacheRes, ctime, cacheT, clock, clockRes, hw>>

\* fvs_activate: if (deactivate_timer_active) deactivate_timer_active = false
\* (the resume or restart of the decoder is followed in SpecSeek)
activate_cancel_timer ==
    /\ ~tmr.shown
    /\ tmr' = [tmr EXCEPT
                 !.shown = TRUE,
                 !.deactivate_timer_active = FALSE,
                 !.timers = [i \in Timers |->
                               IF /\ tmr.timers[i].pc # "none"
                                  /\ tmr.time < tmr.timers[i].born
                                                  + DECODER_SHUTDOWN_DELAY_MS
                               THEN [tmr.timers[i] EXCEPT !.reactivated = TRUE]
                               ELSE tmr.timers[i]]]
    /\ UNCHANGED coreVars
    /\ UNCHANGED <<cache, pins, cacheRes, ctime, cacheT, clock, clockRes, hw>>

\* deactivate_timer_thread: target_time = deactivate_time + delay
timer_start ==
    /\ \E i \in Timers :
          /\ tmr.timers[i].pc = "start"
          /\ tmr' = [tmr EXCEPT !.timers[i].pc = "loop",
                                !.timers[i].target_time =
                                    tmr.deactivate_time + DECODER_SHUTDOWN_DELAY_MS]
    /\ UNCHANGED coreVars
    /\ UNCHANGED <<cache, pins, cacheRes, ctime, cacheT, clock, clockRes, hw>>

\* while (os_gettime_ns() / 1000000 < target_time) os_sleep_ms(100)
timer_loop ==
    /\ \E i \in Timers :
          /\ tmr.timers[i].pc = "loop"
          /\ tmr' = IF tmr.time < tmr.timers[i].target_time
                    THEN [tmr EXCEPT !.timers[i].pc = "sleep",
                                     !.timers[i].wake = tmr.time + TIMER_POLL_MS]
                    ELSE [tmr EXCEPT !.timers[i].pc = "stop"]
    /\ UNCHANGED coreVars
    /\ UNCHANGED <<cache, pins, cacheRes, ctime, cacheT, clock, clockRes, hw>>

\* after the sleep: should_cancel = !deactivate_timer_active, return if set
timer_wake ==
    /\ \E i \in Timers :
          /\ tmr.timers[i].pc = "sleep"
          /\ tmr.time >= tmr.timers[i].wake
          /\ tmr' = [tmr EXCEPT !.timers[i].pc =
                         IF tmr.deactivate_timer_active THEN "loop" ELSE "done"]
    /\ UNCHANGED coreVars
    /\ UNCHANGED <<cache, pins, cacheRes, ctime, cacheT, clock, clockRes, hw>>

\* timer expired: ffmpeg_decoder_stop_thread(s->decoder)
timer_stop ==
    /\ \E i \in Timers :
          /\ tmr.timers[i].pc = "stop"
          /\ tmr' = [tmr EXCEPT !.timers[i].pc = "clear",
                                !.timers[i].stopped = TRUE]
    /\ UNCHANGED coreVars
    /\ UNCHANGED <<cache, pins, cacheRes, ctime, cacheT, clock, clockRes, hw>>

\* deactivate_timer_active = false under s->mutex, return
timer_clear ==
    /\ \E i \in Timers :
          /\ tmr.timers[i].pc = "clear"
          /\ tmr' = [tmr EXCEPT !.timers[i].pc = "done",
                                !.deactivate_timer_active = FALSE]
    /\ UNCHANGED coreVars
    /\ UNCHANGED <<cache, pins, cacheRes, ctime, cacheT, clock, clockRes, hw>>

\* 100 ms pass; a timer thread that can run has run
timer_tick ==
    /\ tmr.time < MaxTimerTime
    /\ \A i \in Timers :
          \/ tmr.timers[i].pc \in {"none", "done"}
          \/ tmr.timers[i].pc = "sleep" /\ tmr.timers[i].wake > tmr.time
    /\ tmr' = [tmr EXCEPT !.time = @ + TIMER_POLL_MS]
    /\ UNCHANGED coreVars
    /\ UNCHANGED <<cache, pins, cacheRes, ctime, cacheT, clock, clockRes, hw>>

TimerNext ==
    \/ deactivate_start_timer
    \/ activate_cancel_timer
    \/ timer_start
    \/ timer_loop
    \/ timer_wake
    \/ timer_stop
    \/ timer_clear
    \/ timer_tick

DecoderNext ==
    \/ decoder_loop_head
    \/ decoder_seek_flush
    \/ decoder_seek_reposition
    \/ decoder_read
    \/ decoder_first_frame
    \/ decoder_loop_flush
    \/ decoder_enqueue
    \/ decoder_full_wake
    \/ decoder_convert
    \/ decoder_exit

DisplayNext ==
    \/ display_loop_head
    \/ display_lock
    \/ display_wake
    \/ display_emit
    \/ display_sink
    \/ display_recycle
    \/ display_relock

ControllerNext ==
    \/ ffmpeg_decoder_initialize
    \/ initialize_open
    \/ ffmpeg_decoder_play_with_timeline
    \/ play_signal
    \/ ffmpeg_decoder_pause
    \/ ffmpeg_decoder_stop
    \/ \E position_us \in SeekTargets : ffmpeg_decoder_seek(position_us)
    \/ ffmpeg_decoder_pause_ready
    \/ ffmpeg_decoder_resume
    \/ resume_signal
    \/ ffmpeg_decoder_stop_thread
    \/ stop_thread_wake
    \/ stop_thread_join_display
    \/ stop_thread_check
    \/ stop_thread_join_decoder

PumpNext == DecoderNext \/ DisplayNext \/ ControllerNext

\* One showing of a scene by the plugin on an opened decoder: start_playback
\* seeks and plays, fvs_deactivate pauses in the ready state, the timeline
\* sync of the tick seeks again, fvs_activate resumes.
start_playback_seek ==
    /\ ctl.calls = 0
    /\ \E position_us \in SeekTargetsTwo : ffmpeg_decoder_seek(position_us)

start_playback_play ==
    /\ ctl.calls = 1
    /\ ffmpeg_decoder_play_with_timeline

fvs_deactivate ==
    /\ ctl.calls = 2
    /\ ffmpeg_decoder_pause_ready

timeline_sync_seek ==
    /\ ctl.calls = 3
    /\ \E position_us \in SeekTargetsTwo : ffmpeg_decoder_seek(position_us)

fvs_activate ==
    /\ ctl.calls = 4
    /\ ffmpeg_decoder_resume

SeekNext ==
    \/ decoder_loop_head
    \/ decoder_seek_flush
    \/ decoder_seek_reposition
    \/ decoder_read
    \/ decoder_first_frame
    \/ decoder_enqueue
    \/ decoder_full_wake
    \/ decoder_convert
    \/ display_loop_head
    \/ display_lock
    \/ display_wake
    \/ display_emit
    \/ display_sink
    \/ display_recycle
    \/ start_playback_seek
    \/ start_playback_play
    \/ play_signal
    \/ fvs_deactivate
    \/ timeline_sync_seek
    \/ fvs_activate
    \/ resume_signal

Init == RBInit /\ PumpInit(MaxFrames, MaxCalls) /\ CacheIdle /\ ClockIdle /\ HwIdle /\ TimerIdle

InitTimed ==
    RBInit /\ PumpInit(MaxFramesTimed, MaxCallsTimed) /\ CacheIdle /\ ClockIdle /\ HwIdle /\ TimerIdle

\* the ring buffer on its own
SpecRB == Init /\ [][RBNext]_vars

\* the decoder with its two threads, driven through its API
Spec == Init /\ [][PumpNext]_vars

\* the same with the millisecond clock advancing between API calls
TimedNext == PumpNext \/ Tick

SpecTimed == InitTimed /\ [][TimedNext]_vars

InitSeek ==
    /\ RBInit /\ PumpInitFrom(InitializedDecoder, MaxFramesSeek, MaxCallsSeek)
    /\ CacheIdle /\ ClockIdle /\ HwIdle /\ TimerIdle

\* an opened decoder whose host sets, clears and sets its callbacks and plays
SinkNext ==
    \/ decoder_loop_head
    \/ decoder_read
    \/ decoder_first_frame
    \/ decoder_loop_flush
    \/ decoder_enqueue
    \/ decoder_full_wake
    \/ decoder_convert
    \/ display_loop_head
    \/ display_lock
    \/ display_wake
    \/ display_emit
    \/ display_sink
    \/ display_recycle
    \/ display_relock
    \/ ffmpeg_decoder_set_callbacks
    \/ ffmpeg_decoder_play_with_timeline
    \/ play_signal

InitSink ==
    /\ RBInit /\ PumpInitFrom(InitializedDecoder, MaxFramesSink, MaxCallsSink)
    /\ CacheIdle /\ ClockIdle /\ HwIdle /\ TimerIdle

SpecSink == InitSink /\ [][SinkNext]_vars

\* enqueue and dequeue attempts made on the pair of buffers in one run
MaxPairOps == 7

\* One producer offers frame k to both buffers.  Ring buffer: write_begin and,
\* when it returned true, write_commit.  Blocking buffer: the decode thread's
\* store, which fills the slot at write_idx unless count >= 3 (there it
\* waits: the frame is not taken).
pair_enqueue ==
    LET k == ctl.calls + 1
        wp == rb.write_pos
        ringOk == CasSucceeds(rb.state[wp], WriteBeginExpected)
        bufOk == ~BufferFull(buffer.count)
    IN  /\ CanCall
        /\ rb' = IF ringOk
                 THEN [rb EXCEPT !.state[wp] = SLOT_READY,
                                 !.frame[wp] = k,
                                 !.timestamp[wp] = TimestampOf(k),
                                 !.write_pos = NextPos(wp),
                                 !.frames_written = @ + 1]
                 ELSE [rb EXCEPT !.write_failures = @ + 1]
        /\ prod' = [prod EXCEPT !.ok = ringOk, !.slot = IF ringOk THEN wp ELSE @]
        /\ rbLog' = IF ringOk
                    THEN [rbLog EXCEPT
                            !.committed = Append(@, <<k, TimestampOf(k)>>)]
                    ELSE rbLog
        /\ buffer' = IF bufOk
                     THEN [buffer EXCEPT
                             !.frames[buffer.write_idx] =
                                 [ ready |-> TRUE, pts |-> TimestampOf(k),
                                   system_time |-> 1000, ref |-> TRUE,
                                   id |-> k, epoch |-> 0 ],
                             !.write_idx = NextIdx(buffer.write_idx),
                             !.count = buffer.count + 1]
                     ELSE buffer
        /\ hist' = IF bufOk THEN [hist EXCEPT !.enqueued = @ + 1] ELSE hist
        /\ ctl' = [ctl EXCEPT !.op = "enqueue", !.ret = bufOk, !.calls = @ + 1]
        /\ UNCHANGED <<cons, dec, bufsync, decT, dispT, now>>
        /\ UNCHANGED sideVars

\* One consumer asks both buffers for a frame.  Ring buffer: read_begin and,
\* when it returned true, read_complete.  Blocking buffer: the display
\* thread's removal of the frame at read_idx, unless count is 0 or the slot is
\* not ready (there it waits or starts over: no frame is delivered).
pair_dequeue ==
    LET rp == rb.read_pos
        ringOk == CasSucceeds(rb.state[rp], ReadBeginExpected)
        f == buffer.frames[buffer.read_idx]
        bufOk == buffer.count # 0 /\ f.ready
    IN  /\ CanCall
        /\ rb' = IF ringOk
                 THEN [rb EXCEPT !.state[rp] = SLOT_EMPTY,
                                 !.frame[rp] = 0,
                                 !.timestamp[rp] = 0,
                                 !.read_pos = NextPos(rp),
                                 !.frames_read = @ + 1]
                 ELSE [rb EXCEPT !.read_failures = @ + 1]
        /\ cons' = IF ringOk
                   THEN [cons EXCEPT !.ok = TRUE, !.slot = rp,
                                     !.frame = rb.frame[rp],
                                     !.timestamp = rb.timestamp[rp]]
                   ELSE [cons EXCEPT !.ok = FALSE]
        /\ rbLog' = IF ringOk
                    THEN [rbLog EXCEPT
                            !.returned = Append(@, <<rb.frame[rp], rb.timestamp[rp]>>)]
                    ELSE rbLog
        /\ buffer' = IF bufOk
                     THEN [buffer EXCEPT
                             !.frames[buffer.read_idx].ready = FALSE,
                             !.read_idx = NextIdx(buffer.read_idx),
                             !.count = buffer.count - 1]
                     ELSE buffer
        /\ dispT' = IF bufOk THEN [dispT EXCEPT !.frame = f] ELSE dispT
        /\ hist' = IF bufOk
                   THEN [hist EXCEPT !.shown = @ + 1, !.lastShown = f.id]
                   ELSE hist
        /\ ctl' = [ctl EXCEPT !.op = "dequeue", !.ret = bufOk, !.calls = @ + 1]
        /\ UNCHANGED <<prod, dec, bufsync, decT, now>>
        /\ UNCHANGED sideVars

PairNext ==
    \/ pair_enqueue
    \/ pair_dequeue

InitPair == RBInit /\ PumpInit(0, MaxPairOps) /\ CacheIdle /\ ClockIdle /\ HwIdle /\ TimerIdle

\* the two buffers side by side, given the same attempts in the same order
SpecPair == InitPair /\ [][PairNext]_vars

InitCache == RBInit /\ PumpInit(0, 0) /\ CacheWarm /\ ClockIdle /\ HwIdle /\ TimerIdle

\* the frame cache on its own, called by one thread at a time
SpecCache == InitCache /\ [][CacheNext]_vars

\* a new cache, or a cache filled by one decode pass with no entry held
InitCacheRace ==
    /\ RBInit /\ PumpInit(0, 0) /\ ClockIdle /\ HwIdle /\ TimerIdle
    /\ cache \in {CacheCreated, FilledAndPinned({})}
    /\ pins = <<>>
    /\ cacheRes = NoCacheCall
    /\ ctime = 2 * FRAME_CACHE_SIZE
    /\ cacheT = NoCacheThread

\* one put and one invalidate at the same time
SpecCacheRace == InitCacheRace /\ [][CacheRaceNext]_vars

\* the accelerated path of two decoders on its own
InitHw == RBInit /\ PumpInit(0, 0) /\ CacheIdle /\ ClockIdle /\ HwIdle /\ TimerIdle

SpecHw == InitHw /\ [][HwNext]_vars

\* the deferred stop of one source on its own
InitTimer == RBInit /\ PumpInit(0, 0) /\ CacheIdle /\ ClockIdle /\ HwIdle /\ TimerIdle

SpecTimer == InitTimer /\ [][TimerNext]_vars

\* a created clock, no call made
InitClock == RBInit /\ PumpInit(0, 0) /\ CacheIdle /\ ClockIdle /\ HwIdle /\ TimerIdle

\* the clock on its own
SpecClock == InitClock /\ [][ClockNext]_vars

\* an opened decoder through one showing, hiding and re-showing of its scene
SpecSeek == InitSeek /\ [][SeekNext]_vars

(***************************************************************************)
(* Claims about the lock-free ring buffer                                  *)
(***************************************************************************)
\* The producer ended every write_begin with its write_commit before the
\* next write_begin.
OneAtATime == ~rbLog.aborted /\ ~rbLog.overlapped

\* The pairs in the run of READY slots that starts at the read cursor.
RECURSIVE ReadyRun(_, _)
ReadyRun(p, n) ==
    IF n = 0 \/ rb.state[p] # SLOT_READY
    THEN <<>>
    ELSE <<<<rb.frame[p], rb.timestamp[p]>>>> \o ReadyRun(NextPos(p), n - 1)

\* C4: with one producer that commits each claimed slot before it claims the
\* next, the pairs returned by read_begin followed by the pairs still READY
\* from the read cursor on are exactly the committed pairs in commit order:
\* nothing is lost, duplicated or reordered.
C4_FifoPairs ==
    OneAtATime =>
        rbLog.committed = rbLog.returned \o ReadyRun(rb.read_pos, RING_BUFFER_SIZE)

\* C4 witness: more pairs than slots went through, so the cursors wrapped.
C4_Witness ==
    /\ OneAtATime
    /\ Len(rbLog.returned) > RING_BUFFER_SIZE
    /\ rbLog.returned = rbLog.committed

\* C7: a write_begin made while all 4 slots are claimed returns false, leaves
\* every slot state and the write cursor unchanged and adds exactly one to
\* write_failures.
C7_FullWriteFails ==
    [][ (AllClaimed /\ lockfree_ringbuffer_write_begin) =>
          /\ ~prod'.ok
          /\ prod'.held = prod.held
          /\ rb'.state = rb.state
          /\ rb'.write_pos = rb.write_pos
          /\ rb'.write_failures = rb.write_failures + 1 ]_vars

\* C7 witness: a write_begin has failed on a buffer whose slots were all claimed.
C7_Witness == rbLog.fullFail /\ AllClaimed /\ ~prod.ok /\ rb.write_failures = 1

\* C8: write_begin never returns a slot the producer still holds or that is
\* still inside a commit / read_begin / read_complete cycle, and no slot is
\* held by the producer and by the consumer at once.
C8_NoDoubleOwnership ==
    /\ [](prod.held \cap cons.held = {})
    /\ [](prod.held \cap rbLog.cycle = {})
    /\ [][ (lockfree_ringbuffer_write_begin /\ prod'.ok) =>
             prod'.slot \notin (prod.held \cup rbLog.cycle) ]_vars

\* C8 witness: a slot is claimed for the second time, after its full cycle,
\* while the consumer holds another slot.
C8_Witness ==
    /\ prod.held # {}
    /\ cons.held # {}
    /\ Len(rbLog.committed) >= RING_BUFFER_SIZE

(***************************************************************************)
(* Claims about the blocking buffer, the two threads and the controller    *)
(***************************************************************************)
\* stop_thread has been entered and has not returned
StopThreadRunning ==
    ctl.pc \in {"st_wake", "st_join_display", "st_check", "st_join_decoder"}

\* C1 (as claimed): from every reachable state of the two threads a call to
\* stop_thread makes both threads leave their loops, joins them and returns.
\* Finite-run form: while stop_thread is running, the decoder is never in a
\* state in which no thread and no step of stop_thread can move.
C1_StopThreadReturns == StopThreadRunning => ENABLED PumpNext

\* a removal by the display thread of a valid frame (emitted or dropped as
\* late) that takes the buffer from full to not-full
FullToNotFull ==
    /\ display_lock \/ display_wake \/ display_recycle \/ display_relock
    /\ buffer.count = BUFFER_FRAMES
    /\ buffer'.count = BUFFER_FRAMES - 1
    /\ buffer.frames[buffer.read_idx].pts >= 0
    /\ buffer.frames[buffer.read_idx].system_time # 0

\* C2 (as claimed): while playing and not stopping, every removal by the
\* display thread that takes the buffer from full to not-full, emitted or
\* dropped, wakes a decode thread blocked on buffer-full; and the two threads
\* are never both left waiting on the buffer condition variable.
C2_RemovalWakesDecoder ==
    /\ [][ (FullToNotFull /\ dec.playing /\ ~dec.stopping
               /\ "dec" \in bufsync.waiters)
            => "dec" \notin bufsync'.waiters ]_vars
    /\ []( (dec.playing /\ ~dec.stopping)
            => ~({"dec", "disp"} \subseteq bufsync.waiters) )

\* C3 (as claimed): once the decode thread has completed a flush for a seek or
\* a loop wrap, the display thread never hands the sink a frame that was
\* enqueued before that flush.
C3_NoStaleFrameAfterFlush ==
    [][ display_sink => dispT.frame.epoch = hist.flushes ]_vars

\* C5: between two discontinuities (seek, loop wrap, stop) the frames handed
\* to the sink are in enqueue order and each is handed at most once: every
\* frame handed was enqueued later than the frame handed before it.
C5_SinkOrder ==
    [][ display_sink =>
          /\ dispT.frame.id > hist.lastShown
          /\ dispT.frame.id <= hist.enqueued ]_vars

C5_Witness == hist.shown >= 3 /\ hist.lastShown >= 3 /\ hist.flushes = 0

\* C6: count never exceeds 3, and the decode thread fills a slot only while
\* count is below 3; finding count at 3 (and no stop requested) it waits on
\* the condition variable instead.
C6_CountBounded ==
    /\ [](buffer.count <= BUFFER_FRAMES)
    /\ [][ (decoder_enqueue \/ decoder_full_wake \/ decoder_convert) =>
             /\ (buffer'.frames # buffer.frames => buffer.count < BUFFER_FRAMES)
             /\ (buffer.count = BUFFER_FRAMES /\ ~dec.stopping =>
                    /\ decT'.pc = "full_wait"
                    /\ "dec" \in bufsync'.waiters
                    /\ buffer' = buffer) ]_vars

C6_Witness == decT.pc = "full_wait" /\ buffer.count = BUFFER_FRAMES

\* a thread exists and has not left its loop
DecodeThreadAlive == decT.pc \notin {"none", "exit", "exited"}
DisplayThreadAlive == dispT.pc \notin {"none", "exited", "self_deadlock"}

\* C9 (as claimed): in every reachable state in which is_paused_ready() is
\* true, both the decode thread and the display thread are alive.
C9_PausedReadyThreadsAlive ==
    ffmpeg_decoder_is_paused_ready => DecodeThreadAlive /\ DisplayThreadAlive

\* C10: resume() returns true exactly when the state is PAUSED_READY and at
\* most 10000 ms have passed since pause_ready(); on true the state is PLAYING
\* and playing is set; past the bound it returns false and the state is
\* STOPPED; in any other state it returns false and changes nothing.
C10_ResumeContract ==
    [][ ffmpeg_decoder_resume =>
          LET paused == dec.state = DECODER_STATE_PAUSED_READY
              recent == now - hist.pausedAt <= 10000
          IN  /\ ctl'.ret = (paused /\ recent)
              /\ (paused /\ recent =>
                     dec'.state = DECODER_STATE_PLAYING /\ dec'.playing)
              /\ (paused /\ ~recent =>
                     dec'.state = DECODER_STATE_STOPPED /\ ctl'.pc = "idle")
              /\ (~paused => UNCHANGED <<dec, buffer, bufsync, decT, dispT>>) ]_vars

C10_Witness ==
    /\ ctl.pc = "resume_signal"
    /\ ctl.ret
    /\ now - hist.pausedAt = 10000
    /\ dec.state = DECODER_STATE_PLAYING

\* C11 (as claimed): after pause_ready() has returned, the display thread
\* hands no frame to the sink until resume() or play() is called.  The state
\* stays PAUSED_READY from the return of pause_ready() until resume(), play()
\* or stop() changes it.
C11_NoEmissionWhilePausedReady ==
    [][ display_sink => dec.state # DECODER_STATE_PAUSED_READY ]_vars

\* no slot of the frame buffer is marked ready
NoneReady(b) == \A i \in BufSlots : ~b.frames[i].ready

\* C12: when the decode thread picks up a seek request it empties the frame
\* buffer (count 0, no ready slot) before it repositions the demuxer; the
\* buffer still holds no frame when av_seek_frame runs, and every frame that
\* is ready in the buffer was enqueued after the latest flush.
C12_FlushBeforeReposition ==
    [][ /\ decoder_seek_flush => buffer'.count = 0 /\ NoneReady(buffer')
        /\ decoder_seek_reposition => buffer.count <= 0 /\ NoneReady(buffer)
        /\ \A i \in BufSlots :
              buffer'.frames[i].ready => buffer'.frames[i].epoch = hist'.flushes
      ]_vars

\* a frame decoded from the sought position sits in the buffer
C12_Witness ==
    /\ dec.format_pos \in SeekTargets
    /\ hist.flushes >= 1
    /\ \E i \in BufSlots : buffer.frames[i].ready /\ buffer.frames[i].epoch = hist.flushes

\* C13 (as claimed): the position the decode thread repositions to is the
\* target of the most recent seek() call, also when an earlier seek was still
\* pending at pause_ready() and a newer seek() arrived before resume().  A
\* reposition that leaves no request pending has applied the latest target.
C13_LatestSeekApplied ==
    [][ decoder_seek_reposition /\ ~dec.seek_request
            => decT.seek_target = hist.lastSeek ]_vars

(***************************************************************************)
(* Claims about the frame cache                                            *)
(***************************************************************************)
\* the step is a call of frame_cache_put / frame_cache_get
PutStep == cacheRes'.n # cacheRes.n /\ cacheRes'.op = "put"
GetStep == cacheRes'.n # cacheRes.n /\ cacheRes'.op = "get"

\* every slot holds a Ready entry that some caller holds
AllPinned(c) ==
    \A i \in CacheSlots : c.entries[i].state = CACHE_READY /\ Pinned(c.entries[i])

NoEmptySlot(c) == \A i \in CacheSlots : c.entries[i].state # CACHE_EMPTY

\* C14: over sequences of get, put and release (no invalidate), an entry with
\* reference count other than 0 is Ready and put leaves it as it is; when all
\* 30 slots are Ready and pinned, put returns false and changes no entry and
\* no counter.
C14_PutSparesPinned ==
    [][ (PutStep /\ ~cacheRes.invalidated) =>
          /\ \A i \in CacheSlots :
                Pinned(cache.entries[i]) =>
                   /\ cache.entries[i].state = CACHE_READY
                   /\ cache'.entries[i] = cache.entries[i]
          /\ AllPinned(cache) =>
                /\ ~cacheRes'.ret
                /\ cache'.entries = cache.entries
                /\ cache'.evictions = cache.evictions
      ]_vars

\* put has just failed on a cache of 30 pinned entries
C14_Witness ==
    /\ cacheRes.op = "put" /\ ~cacheRes.ret /\ ~cacheRes.invalidated
    /\ AllPinned(cache)
    /\ FRAME_CACHE_SIZE = 30

\* C15 (as claimed): between a successful get and its release the entry
\* returned stays Ready with the same pts and the same frame, whatever put,
\* invalidate, get and release calls come in between.
C15_PinnedEntryStable ==
    \A k \in 1 .. Len(pins) :
       /\ cache.entries[pins[k].slot].state = CACHE_READY
       /\ cache.entries[pins[k].slot].pts = pins[k].pts
       /\ cache.entries[pins[k].slot].frame = pins[k].frame

\* C16: when no slot is Empty, a successful put replaces exactly one entry:
\* a Ready entry with reference count 0 whose last-access time is the
\* smallest among such entries; the eviction counter grows by one and every
\* other entry is unchanged.  The last-access time is the time of the put
\* that filled the entry or of the latest get that hit it.
C16_PutEvictsLru ==
    [][ /\ (PutStep /\ NoEmptySlot(cache) /\ cacheRes'.ret) =>
              \E v \in CacheSlots :
                 /\ cache.entries[v].state = CACHE_READY
                 /\ cache.entries[v].ref_count = 0
                 /\ \A j \in CacheSlots :
                       (cache.entries[j].state = CACHE_READY
                           /\ cache.entries[j].ref_count = 0)
                       => cache.entries[v].last_access_time
                              <= cache.entries[j].last_access_time
                 /\ cache'.entries[v] =
                       [ frame |-> cacheRes'.frame, pts |-> cacheRes'.pts,
                         ref_count |-> 0, state |-> CACHE_READY,
                         last_access_time |-> ctime', access_count |-> 0 ]
                 /\ \A j \in CacheSlots \ {v} :
                       cache'.entries[j] = cache.entries[j]
                 /\ cache'.evictions = cache.evictions + 1
        /\ (GetStep /\ cacheRes'.ret) =>
              cache'.entries[cacheRes'.entry].last_access_time = ctime'
      ]_vars

\* a full cache whose oldest entry was hit by a get and released: the put
\* evicted the entry of slot 1 and kept that of slot 0
C16_Witness ==
    /\ cacheRes.op = "put" /\ cacheRes.ret /\ ~cacheRes.invalidated
    /\ cache.evictions = 1
    /\ cache.entries[0].frame = 1 /\ cache.entries[0].ref_count = 0
    /\ cache.entries[0].access_count = 1
    /\ cache.entries[1].frame \in CacheFrames

\* C17 (as claimed): get(pts) for a pts that was put and is still in the
\* cache returns a Ready entry with that pts holding the frame of that put,
\* pins it and counts a hit; get for a pts with no Ready entry returns no
\* entry, counts a miss and changes no entry.
C17_GetReturnsPutFrame ==
    [][ GetStep =>
          LET held == {i \in CacheSlots : /\ cache.entries[i].state = CACHE_READY
                                          /\ cache.entries[i].pts = cacheRes'.pts}
              e    == cacheRes'.entry
          IN  /\ \A i \in held :
                    /\ e >= 0
                    /\ cache'.entries[e].state = CACHE_READY
                    /\ cache'.entries[e].pts = cacheRes'.pts
                    /\ cache'.entries[e].frame = cache.entries[i].frame
                    /\ cache'.entries[e].ref_count = cache.entries[e].ref_count + 1
                    /\ cache'.hits = cache.hits + 1
              /\ held = {} =>
                    /\ e = -1
                    /\ cache'.misses = cache.misses + 1
                    /\ cache'.entries = cache.entries
      ]_vars

\* C18: a frame at the head of the frame buffer that the display thread finds
\* more than 500 ms past its deadline is removed from the buffer (slot not
\* ready, read_idx advanced, count one less) and counted in frames_dropped;
\* the frames dropped this way are exactly the frames seen that late, and
\* none of them is handed to the sink.
C18_LateFrameDropped ==
    [][ /\ hist'.lateSeen = hist'.dropped
        /\ hist'.dropped # hist.dropped =>
              /\ hist'.dropped = hist.dropped \cup {buffer.frames[buffer.read_idx].id}
              /\ buffer.frames[buffer.read_idx].ready
              /\ ~buffer'.frames[buffer.read_idx].ready
              /\ buffer'.read_idx = NextIdx(buffer.read_idx)
              /\ buffer'.count = buffer.count - 1
              /\ dec'.frames_dropped = dec.frames_dropped + 1
        /\ display_sink => dispT.frame.id \notin hist.lateSeen
      ]_vars

\* one frame was dropped late and a later one reached the sink
C18_Witness ==
    /\ hist.dropped # {}
    /\ dec.frames_dropped = Cardinality(hist.dropped)
    /\ hist.shown >= 1
    /\ \A d \in hist.dropped : d < hist.lastShown

(***************************************************************************)
(* Claims about the clock                                                  *)
(***************************************************************************)
\* C19 (as claimed): within one epoch, at rate 1.0, of two timestamps the
\* greater gets the strictly greater deadline.
C19_DeadlineStrictlyMonotonic ==
    \A a, b \in clockRes.asked :
       a.pts < b.pts => b.target_time > a.target_time

\* C20: after clock_reset(start_pts) at system time T ms, at rate 1.0, the
\* deadline of every pts >= start_pts is T + (pts - start_pts) / 1000 ms, the
\* quotient taken without its fraction; after reset(0), pts 33000 gets T + 33
\* and pts 66000 gets T + 66.
C20_DeadlineLinear ==
    \A a \in clockRes.asked :
       a.pts >= clock.media_start_pts =>
          /\ a.target_time =
                clock.system_start + (a.pts - clock.media_start_pts) \div 1000
          /\ (clock.media_start_pts = 0 /\ a.pts = 33000) =>
                a.target_time = clock.system_start + 33
          /\ (clock.media_start_pts = 0 /\ a.pts = 66000) =>
                a.target_time = clock.system_start + 66

\* after reset(0) at T = 1999 ms the deadlines of 33000 and 66000 were asked
C20_Witness ==
    /\ clock.media_start_pts = 0 /\ clock.system_start = 1999
    /\ [pts |-> 33000, target_time |-> 2032] \in clockRes.asked
    /\ [pts |-> 66000, target_time |-> 2065] \in clockRes.asked

(***************************************************************************)
(* Claims about failures                                                   *)
(***************************************************************************)
\* C21 (as claimed): when the display thread reaches the emit step and the
\* video sink is unset, it discards the frame silently: the slot is recycled
\* (ready cleared, read cursor advanced, count decremented) and the thread
\* goes on to its next cycle without blocking.
C21_UnsetSinkDiscards ==
    [][ (display_relock /\ ~dec.video_cb /\ ~dec.stopping) =>
          /\ dispT'.pc = "top"
          /\ ~buffer'.frames[dispT.current_read_idx].ready
          /\ buffer'.read_idx = NextIdx(buffer.read_idx)
          /\ buffer'.count = buffer.count - 1
          /\ bufsync'.owner = "none" ]_vars

\* a pump thread has been created and its function has not returned
PumpThreadRunning ==
    \/ decT.pc \notin {"none", "exited"}
    \/ dispT.pc \notin {"none", "exited"}

\* C22 (as claimed): after initialize() returns false, no pump thread of that
\* decoder is running, is_initialized() reports false, and a following play()
\* starts no thread (play() returns at once exactly when initialized is false).
C22_FailedInitializeLeavesNothing ==
    [][ ( /\ (ffmpeg_decoder_initialize /\ ctl'.pc = "idle") \/ initialize_open
          /\ ~ctl'.ret )
        => ~dec'.initialized /\ ~PumpThreadRunning' ]_vars

\* C23: immediately after the decode thread's flush for a seek or a loop
\* wrap, count is 0, read_idx and write_idx are 0, no slot is marked ready and
\* every slot's frame reference has been unreferenced.
C23_FlushEmptiesBuffer ==
    [][ (decoder_seek_flush \/ decoder_loop_flush) =>
          /\ buffer'.count = 0
          /\ buffer'.read_idx = 0
          /\ buffer'.write_idx = 0
          /\ NoneReady(buffer')
          /\ \A i \in BufSlots : ~buffer'.frames[i].ref ]_vars

\* a flush has just emptied a buffer of which every slot had been filled
C23_Witness ==
    /\ hist.flushes >= 1
    /\ decT.pc \in {"seek_reposition", "top"}
    /\ buffer.count = 0
    /\ \A i \in BufSlots :
          buffer.frames[i].id # 0 /\ ~buffer.frames[i].ref /\ ~buffer.frames[i].ready

(***************************************************************************)
(* Claims about the two buffers taken together                             *)
(***************************************************************************)
\* C24 (as claimed): the blocking buffer and the lock-free ring buffer
\* implement one bounded FIFO contract: given the same sequence of enqueue and
\* dequeue attempts, both accept and reject the same enqueues and deliver the
\* same frames in the same order.
C24_BuffersAgree ==
    /\ ctl.op = "enqueue" => prod.ok = ctl.ret
    /\ ctl.op = "dequeue" =>
          /\ cons.ok = ctl.ret
          /\ cons.ok => cons.frame = dispT.frame.id

(***************************************************************************)
(* More claims about the blocking buffer and the two threads               *)
(***************************************************************************)
\* C25 (as claimed): whenever no thread is inside a critical section of
\* buffer.lock, 0 <= count <= 3, count is the number of slots marked ready and
\* write_idx = (read_idx + count) mod 3, under every interleaving of the
\* decode thread's enqueue and flush with the display thread's emit and drop.
C25_BufferConsistent ==
    bufsync.owner = "none" =>
       /\ 0 <= buffer.count /\ buffer.count <= BUFFER_FRAMES
       /\ buffer.count = Cardinality({i \in BufSlots : buffer.frames[i].ready})
       /\ buffer.write_idx = (buffer.read_idx + buffer.count) % BUFFER_FRAMES

(***************************************************************************)
(* More claims about the lock-free ring buffer                             *)
(***************************************************************************)
\* C26 (as claimed): after a write_begin that is ended by write_abort (the
\* producer holding one slot at a time), the frames committed afterwards are
\* returned by read_begin in commit order, and each committed frame becomes
\* readable without any further write: while a committed frame is still
\* unread and both threads are between calls, the slot at the read cursor is
\* READY.
C26_AbortKeepsFifo ==
    (rbLog.aborted /\ ~rbLog.overlapped) =>
       /\ Len(rbLog.returned) <= Len(rbLog.committed)
       /\ rbLog.returned = SubSeq(rbLog.committed, 1, Len(rbLog.returned))
       /\ ( /\ prod.pc = "idle" /\ prod.held = {}
            /\ cons.pc = "idle"
            /\ Len(rbLog.returned) < Len(rbLog.committed) )
          => rb.state[rb.read_pos] = SLOT_READY

(***************************************************************************)
(* More claims about the frame cache                                       *)
(***************************************************************************)
\* C27 (as claimed): put and invalidate are serialized by the cache lock:
\* under every interleaving of a put with an invalidate, once both calls have
\* returned each Ready entry owns a non-null frame and each Empty entry owns
\* no frame.
C27_PutInvalidateSerialized ==
    (cacheT.put.pc = "done" /\ cacheT.inv.pc = "done") =>
       \A i \in CacheSlots :
          /\ cache.entries[i].state = CACHE_READY => cache.entries[i].frame # 0
          /\ cache.entries[i].state = CACHE_EMPTY => cache.entries[i].frame = 0

(***************************************************************************)
(* Claims about the clock in the decode thread                             *)
(***************************************************************************)
\* the decode thread has decoded a picture that has a timestamp
PictureDecoded == decoder_read /\ decT'.pc \in {"first_frame", "enqueue"}

\* C28 (as claimed): the clock is reset exactly once per play, accepted seek
\* and loop wrap, on the first picture with a valid timestamp decoded after
\* that event: a picture resets the clock exactly when such an event has
\* happened since the picture before it.  (clock_reset writes system_start
\* and media_start_pts in one critical section of clock.lock, and the
\* deadline is computed in another.)
C28_ResetOncePerEvent ==
    [][ PictureDecoded => (decT'.pc = "first_frame" <=> hist.armed) ]_vars

(***************************************************************************)
(* Claims about locks and external calls                                   *)
(***************************************************************************)
\* C29 (as claimed): neither pump thread holds buffer.lock while it is inside
\* an external decode (av_read_frame, avcodec_*, av_seek_frame), pixel
\* conversion (sws_scale) or sink (video_cb) function.  (decoder->mutex and
\* clock.lock are released within the steps that take them, none of which
\* makes such a call.)
C29_NoLockAcrossExternalCalls ==
    /\ decT.pc \in {"read", "seek_reposition", "convert"}
          => bufsync.owner # "dec"
    /\ dispT.pc = "sink" => bufsync.owner # "disp"

(***************************************************************************)
(* Claims about the accelerated path                                       *)
(***************************************************************************)
\* C30 (as claimed): a failed hardware transfer disables the accelerated path
\* of a decoder only when it is at least the 6th failed transfer of that
\* decoder in a row (a successful transfer restarts the count), and only
\* initialize() enables the path again.
C30_BreakerAfterConsecutiveFailures ==
    [][ \A d \in Decoders :
          /\ ( /\ hw.hw_decoding_active[d] /\ ~hw'.hw_decoding_active[d]
               /\ hw'.run[d] = hw.run[d] + 1 )
                => hw'.run[d] > HW_FAILURE_LIMIT
          /\ (~hw.hw_decoding_active[d] /\ hw'.hw_decoding_active[d])
                => hw_initialize ]_vars

(***************************************************************************)
(* Claims about the deferred stop                                          *)
(***************************************************************************)
\* C32 (as claimed): a deferred-stop timer calls stop_thread only if the
\* source has not been reactivated within the 2000 ms grace period of the
\* deactivation that started it: such a reactivation cancels that timer.
C32_StopOnlyIfNotReactivated ==
    [][ \A i \in Timers :
          (~tmr.timers[i].stopped /\ tmr'.timers[i].stopped)
              => ~tmr.timers[i].reactivated ]_vars

C34_ExitOnlyOnStop ==
    /\ [][ (decT.pc # "exit" /\ decT'.pc = "exit") =>
             (dec.stopping \/ dec.interrupt_request) ]_vars
    /\ [][ (decoder_read /\ ~dec.stopping /\ ~dec.interrupt_request) =>
             decT'.pc \in {"top", "loop_flush", "first_frame", "enqueue"} ]_vars
    /\ [][ (decoder_convert /\ hist'.enqueued = hist.enqueued) =>
             /\ bufsync'.owner = "none"
             /\ decT'.pc = "top"
             /\ buffer'.count = buffer.count
             /\ buffer'.write_idx = buffer.write_idx ]_vars

\* the first picture after play was decoded and its store failed: nothing
\* was enqueued, the lock is free and the thread is back at its loop head
\* with no stop requested
C34_Witness ==
    /\ decT.pc = "top" /\ dec.thread_running /\ dec.playing
    /\ ~dec.stopping /\ ~dec.interrupt_request
    /\ ~hist.armed /\ ~dec.waiting_for_first_frame
    /\ hist.enqueued = 0 /\ hist.flushes = 0
    /\ bufsync.owner = "none"

(***************************************************************************)
(* Claims about the life of the two threads                                *)
(***************************************************************************)
\* C35: whenever play_with_timeline creates a decode thread (a display
\* thread), no thread of that kind is running and every thread of that kind
\* created earlier has been joined.
C35_OneThreadOfEachKind ==
    [][ (ffmpeg_decoder_play_with_timeline /\ dec.initialized) =>
          /\ "decoder" \in Created(dec) =>
                /\ decT.pc \in {"none", "exited"}
                /\ "decoder" \notin hist.unjoined
          /\ "display" \in Created(dec) =>
                /\ dispT.pc \in {"none", "exited"}
                /\ "display" \notin hist.unjoined ]_vars

(***************************************************************************)
(* Claims about re-initialisation                                          *)
(***************************************************************************)
\* C36: when initialize returns true the blocking buffer is empty and
\* consistent: count is 0, read_idx equals write_idx and no slot is ready.
C36_InitializeEmptiesBuffer ==
    [][ (initialize_open /\ ctl'.ret) =>
          /\ buffer'.count = 0
          /\ buffer'.read_idx = buffer'.write_idx
          /\ \A i \in BufSlots : ~buffer'.frames[i].ready ]_vars

(***************************************************************************)
(* Claims about the cache's reference counts                               *)
(***************************************************************************)
\* C37: with every release matching an earlier successful get, the
\* ref_count of every entry is the number of gets on it that have not been
\* released yet (so it never goes below 0 and never wraps), across put and
\* invalidate too.
C37_RefCountIsOutstandingGets ==
    \A i \in DOMAIN cache.entries :
        cache.entries[i].ref_count =
            Cardinality({k \in 1 .. Len(pins) : pins[k].slot = i})

(***************************************************************************)
(* Claims about the clock epoch of buffered frames                         *)
(***************************************************************************)
\* C38: the decode thread resets the clock (first picture decoded with
\* waiting_for_first_frame set) only when the blocking buffer holds no ready
\* frame: a frame still in the buffer was stamped with a deadline of the
\* pair the reset replaces.
C38_NoResetOverBufferedFrames ==
    [][ (PictureDecoded /\ decT'.pc = "first_frame") =>
            \A i \in BufSlots : ~buffer.frames[i].ready ]_vars

(***************************************************************************)
(* Claims about the ring buffer's counters                                 *)
(***************************************************************************)
\* C39: frames_read never exceeds frames_written, and whenever neither the
\* producer nor the consumer is inside a call, frames_written - frames_read
\* is the number of slots in state READY.
C39_ReadNeverAheadOfWritten ==
    /\ rb.frames_read <= rb.frames_written
    /\ (prod.pc = "idle" /\ cons.pc = "idle") =>
          rb.frames_written - rb.frames_read =
              Cardinality({i \in Slots : rb.state[i] = SLOT_READY})

(***************************************************************************)
(* Claims about the pts of cached entries                                  *)
(***************************************************************************)
\* C40: no two Ready entries of the cache hold the same pts.
C40_OneReadyEntryPerPts ==
    \A i, j \in DOMAIN cache.entries :
        ( /\ i # j
          /\ cache.entries[i].state = CACHE_READY
          /\ cache.entries[j].state = CACHE_READY )
            => cache.entries[i].pts # cache.entries[j].pts
====
